---- MODULE Spec2Model ----
(***************************************************************************)
(* EDF_Toolkit: the segmentation engine (core/edf_segmentor.py) as it is   *)
(* driven by the desktop application (edf_app.py).                         *)
(*                                                                         *)
(* Conventions                                                             *)
(*  - Python None is the empty tuple None, a present value x is Some(x).   *)
(*  - Times are the code's float seconds, kept exactly as integer          *)
(*    milliseconds: sample / sfreq  ==  (sample * 1000) \div sfreq, and    *)
(*    MIN_SEGMENT_DURATION (seconds) is compared as MIN * 1000.            *)
(*  - A dict is the sequence of its items in insertion order.              *)
(*  - TLA+ strings end at U+00FF, so the Cyrillic annotation texts of the  *)
(*    source are written in Latin transliteration, letter for letter:      *)
(*      "Fonovaya zapis"             Фоновая запись                        *)
(*      "Fotostimulyaciya"           Фотостимуляция                        *)
(*      "Vstroennyj fotostimulyator" Встроенный фотостимулятор             *)
(*      "Artefakt"                   Артефакт                              *)
(*      "ms" мс, "Gc" Гц, "dB" дБ, "Ton" Тон, "Szhatie" Сжатие,            *)
(*      "min." мин.                                                        *)
(*  - A string holds the characters U+0001 to U+00FF as they are, all      *)
(*    but the grave accent U+0060; the character classes of Python         *)
(*    (whitespace, digits, letters, case) are given for all of these.      *)
(*    Two capitals lie above U+00FF and are written "M" (U+039C, the       *)
(*    capital of U+00B5) and "Y" (U+0178, the capital of U+00FF). Other    *)
(*    characters above U+00FF than these and                               *)
(*    the transliterated Cyrillic ones are outside the texts considered.   *)
(*    The texts held in variables stay below U+0080, which is what TLC     *)
(*    keeps intact when it stores a state.                                 *)
(***************************************************************************)
EXTENDS Integers, Sequences, FiniteSets, TLC

VARIABLES
    has_segmentor,          \* EDFApp.segmentor is not None
    raw,                    \* EDFSegmentor.raw: None or Some([sfreq, n_times])
    events,                 \* EDFSegmentor.events: None or Some(<< <<sample, 0, code>>, ... >>)
    event_id,               \* EDFSegmentor.event_id: None or Some(<< <<description, code>>, ... >>)
    seg_dict,               \* EDFSegmentor.seg_dict: items in insertion order
    MIN_SEGMENT_DURATION,   \* settings.MIN_SEGMENT_DURATION, seconds
    outcome,                \* how the last load_metadata() or process() call ended
    runs,                   \* number of process() calls on the current segmentor
    stored,                 \* number of seg_dict[...] = ... assignments of the last process()
    edf_file,               \* the EDF file on disk the user works with:
                            \* [annotations, sfreq, defect]
    raw_label,              \* the raw label handed to EventProcessor._clean_event_name
    cleaned_label,          \* what _clean_event_name returned: None or Some(text)
    candidate,              \* the candidate handed to generate_segment_name: None or Some(text)
    used_names,             \* the names handed to generate_segment_name
    allocated_name,         \* what generate_segment_name returned: None or Some(text)
    last_call,              \* the EventProcessor method called last, "none" before any call
    calls,                  \* number of EventProcessor calls made
    metadata,               \* an EDFMetadata object: [raw, events, event_id]
    event_data,             \* what its get_event_info returned: None before the call
                            \* and after a load_metadata call
    metadata_loads,         \* number of load_metadata calls made on it
    db,                     \* the database and the segment files of a DBManager:
                            \* [patients, edf_files, segments, seq, files]
    fill_call,              \* the last fill_segments_from_dict call: [path, outcome]
    fills,                  \* number of fill_segments_from_dict calls made
    db_calls,               \* number of other calls made on the database: add_patient,
                            \* add_edf_file, add_segment, statements of the SQL editor
    batch_state,            \* batch_process_edf_files: "idle", "running", "returned"
                            \* (nothing to do) or "completed"
    batch_files,            \* its edf_files: the listing taken at the start, each entry
                            \* [path, edf]
    batch_pos,              \* position of the for loop in batch_files
    segmentor_seg_dict,     \* seg_dict of the loop's local segmentor: None before the first
    attempted,              \* the iterations made: [path, start_map, outcome]
    processed_files,        \* its counter processed_files
    total_segments,         \* its counter total_segments
    rename_state,           \* rename_edf_files: "idle", "running" or "returned"
    directory,              \* the .edf files of EDFProcessor.directory: a set of
                            \* <<file name, file>>
    futures,                \* its futures, in submission order: [file, status, metadata]
    renamed_count,          \* its counter renamed_count
    dir_ops                 \* number of other operations of EDFProcessor run on the directory

engine_vars == <<has_segmentor, raw, events, event_id, seg_dict, MIN_SEGMENT_DURATION,
                 outcome, runs, stored, edf_file>>

names_vars == <<raw_label, cleaned_label, candidate, used_names, allocated_name,
                last_call, calls>>

timeline_vars == <<metadata, event_data, metadata_loads>>

store_vars == <<db, fill_call, fills, db_calls>>

batch_vars == <<batch_state, batch_files, batch_pos, segmentor_seg_dict, attempted,
                processed_files, total_segments>>

rename_vars == <<rename_state, directory, futures, renamed_count, dir_ops>>

other_vars == <<timeline_vars, store_vars, batch_vars, rename_vars>>

vars == <<has_segmentor, raw, events, event_id, seg_dict, MIN_SEGMENT_DURATION,
          outcome, runs, stored, edf_file,
          raw_label, cleaned_label, candidate, used_names, allocated_name,
          last_call, calls,
          metadata, event_data, metadata_loads,
          db, fill_call, fills, db_calls,
          batch_state, batch_files, batch_pos, segmentor_seg_dict, attempted,
          processed_files, total_segments,
          rename_state, directory, futures, renamed_count, dir_ops>>

None == <<>>
Some(x) == <<x>>
Value(opt) == opt[1]

\* no EventProcessor method of core/event_processor.py has been called
NamesIdle ==
    /\ raw_label = ""
    /\ cleaned_label = None
    /\ candidate = None
    /\ used_names = {}
    /\ allocated_name = None
    /\ last_call = "none"
    /\ calls = 0

\* no EDFMetadata object is in use
TimelineIdle ==
    /\ metadata = [raw |-> None, events |-> None, event_id |-> None]
    /\ event_data = None
    /\ metadata_loads = 0

\* a new database without rows, an empty segments directory, no call made
EmptyDatabase ==
    [patients |-> <<>>, edf_files |-> <<>>, segments |-> <<>>,
     seq |-> [patients |-> 0, edf_files |-> 0, segments |-> 0], files |-> {}]

StoreIdle ==
    /\ db = EmptyDatabase
    /\ fill_call = [path |-> "", outcome |-> "none"]
    /\ fills = 0
    /\ db_calls = 0

\* batch_process_edf_files has not been called
BatchIdle ==
    /\ batch_state = "idle"
    /\ batch_files = <<>>
    /\ batch_pos = 1
    /\ segmentor_seg_dict = None
    /\ attempted = <<>>
    /\ processed_files = 0
    /\ total_segments = 0

\* rename_edf_files has not been called, on an empty directory
RenameIdle ==
    /\ rename_state = "idle"
    /\ directory = {}
    /\ futures = <<>>
    /\ renamed_count = 0
    /\ dir_ops = 0

OthersIdle == TimelineIdle /\ StoreIdle /\ BatchIdle /\ RenameIdle

---------------------------------------------------------------------------
(* Bounds of the model *)

MaxEvents == 3      \* longest annotation list of a recording
MaxRuns == 2        \* process() calls on one segmentor
MaxCalls == 2       \* calls of EventProcessor methods on one set of arguments
MaxFills == 3       \* fill_segments_from_dict calls on one database
MaxDbCalls == 1     \* other calls and SQL statements on one database
MaxLoads == 1       \* load_metadata calls on one EDFMetadata object
MaxDirOps == 1      \* other operations of EDFProcessor on one directory

(* Program constants *)

DefaultMinSegmentDuration == 5

\* float("nan"): the one float that is neither less than, nor equal to, nor greater
\* than any float. It is kept as a number no duration and no entry considered has,
\* and every comparison of the code with a possible nan asks IsNaN first.
NaN == -999

IsNaN(x) == x = NaN

MillisPerSecond == 1000

---------------------------------------------------------------------------
(* Python string operations used by the code *)

\* s.find(ch) + 1 for a one-character ch: 0 when absent
IndexOf(ch, s) ==
    IF \E i \in 1..Len(s) : SubSeq(s, i, i) = ch
    THEN CHOOSE i \in 1..Len(s) :
            /\ SubSeq(s, i, i) = ch
            /\ \A j \in 1..(i - 1) : SubSeq(s, j, j) # ch
    ELSE 0

\* s.split(ch)[0]
SplitFirst(s, ch) ==
    IF IndexOf(ch, s) = 0 THEN s ELSE SubSeq(s, 1, IndexOf(ch, s) - 1)

\* the characters up to U+00FF that \s of a regular expression, str.strip() and
\* str.isspace() take as whitespace: blank, tab U+0009, line feed U+000A, carriage
\* return U+000D, form feed U+000C, then vertical tab U+000B, the separators
\* U+001C, U+001D, U+001E, U+001F, next line U+0085 and the no-break space U+00A0
Whitespace == {" ", "\t", "\n", "\r", "\f", "", "", "", "", "", "", " "}

\* s.strip()
RECURSIVE RStrip(_)
RStrip(s) ==
    IF Len(s) > 0 /\ SubSeq(s, Len(s), Len(s)) \in Whitespace
    THEN RStrip(SubSeq(s, 1, Len(s) - 1))
    ELSE s

RECURSIVE LStrip(_)
LStrip(s) ==
    IF Len(s) > 0 /\ SubSeq(s, 1, 1) \in Whitespace
    THEN LStrip(SubSeq(s, 2, Len(s)))
    ELSE s

Strip(s) == LStrip(RStrip(s))

\* needle in s
Contains(needle, s) ==
    \E i \in 1..(Len(s) - Len(needle) + 1) :
        SubSeq(s, i, i + Len(needle) - 1) = needle

\* the letters up to U+00FF that have a capital or a small form there, pair by
\* pair: a-z, then U+00E0 to U+00FE without the division sign U+00F7, and A-Z,
\* then U+00C0 to U+00DE without the multiplication sign U+00D7
LowerLetters == "abcdefghijklmnopqrstuvwxyzàáâãäåæçèéêëìíîïðñòóôõöøùúûüýþ"
UpperLetters == "ABCDEFGHIJKLMNOPQRSTUVWXYZÀÁÂÃÄÅÆÇÈÉÊËÌÍÎÏÐÑÒÓÔÕÖØÙÚÛÜÝÞ"

\* the other letters up to U+00FF, all of them small or without case: U+00AA,
\* U+00B5, U+00BA, U+00DF, U+00FF
OtherLetters == "ªµºßÿ"

\* the characters up to U+00FF that are numeric without being letters: the digits,
\* the superscripts U+00B2, U+00B3, U+00B9 and the fractions U+00BC to U+00BE
NumericChars == "0123456789²³¹¼½¾"

---------------------------------------------------------------------------
(* EventProcessor of core/edf_segmentor.py *)

\* get_event_name: the first name of ev_id, in dict order, mapped to evt_code
RECURSIVE get_event_name_from(_, _, _)
get_event_name_from(evt_code, ev_id, k) ==
    IF k > Len(ev_id) THEN "Unknown"
    ELSE IF ev_id[k][2] = evt_code THEN ev_id[k][1]
    ELSE get_event_name_from(evt_code, ev_id, k + 1)

\* a lookup in which the last name mapped to evt_code wins
get_event_name_last_match(evt_code, ev_id) ==
    LET matching == {k \in 1..Len(ev_id) : ev_id[k][2] = evt_code}
    IN  IF matching = {} THEN "Unknown"
        ELSE ev_id[CHOOSE k \in matching : \A h \in matching : h <= k][1]

get_event_name(evt_code, ev_id) == get_event_name_from(evt_code, ev_id, 1)

\* generate_segment_name: the while loop, one iteration per call
RECURSIVE generate_segment_name_loop(_, _, _, _)
generate_segment_name_loop(base_name, seg_name, counter, existing_names) ==
    IF seg_name \in existing_names
    THEN generate_segment_name_loop(base_name,
                                    base_name \o "_" \o ToString(counter),
                                    counter + 1, existing_names)
    ELSE seg_name

\* a faulty allocator that hands back the candidate without looking at the used names
generate_segment_name_unchecked(base_name, existing_names) == base_name

generate_segment_name(base_name, existing_names) ==
    generate_segment_name_loop(base_name, base_name, 1, existing_names)

---------------------------------------------------------------------------
(* EDFSegmentor._simplify_segment_name *)

name_mapping == <<
    <<"Fonovaya zapis", "Background">>,
    <<"Otkryvanie glaz", "Eyes Open">>,
    <<"Zakryvanie glaz", "Eyes Closed">>,
    <<"Fotostimulyaciya", "Photic Stim">>,
    <<"Posle fotostimulyacii", "Post-Photic">>,
    <<"Bez stimulyacii", "Rest">>,
    <<"Vstroennyj fotostimulyator oba, 50 ms, 1 Gc", "Photic 1Hz">>,
    <<"Vstroennyj fotostimulyator oba, 50 ms, 2 Gc", "Photic 2Hz">>,
    <<"Vstroennyj fotostimulyator oba, 50 ms, 4 Gc", "Photic 4Hz">>,
    <<"Vstroennyj fotostimulyator oba, 50 ms, 6 Gc", "Photic 6Hz">>,
    <<"Vstroennyj fotostimulyator oba, 50 ms, 8 Gc", "Photic 8Hz">>,
    <<"Vstroennyj fotostimulyator oba, 50 ms, 10 Gc", "Photic 10Hz">>,
    <<"Vstroennyj fotostimulyator oba, 50 ms, 12 Gc", "Photic 12Hz">>,
    <<"Vstroennyj fotostimulyator oba, 50 ms, 14 Gc", "Photic 14Hz">>,
    <<"Vstroennyj fotostimulyator oba, 30 ms, 16 Gc", "Photic 16Hz">>,
    <<"Vstroennyj fotostimulyator oba, 30 ms, 18 Gc", "Photic 18Hz">>,
    <<"Vstroennyj fotostimulyator oba, 30 ms, 20 Gc", "Photic 20Hz">>,
    <<"Vstroennyj fotostimulyator oba, 15 ms, 50 Gc", "Photic 50Hz">>,
    <<"Vstroennyj fotostimulyator oba, 10 ms, 60 Gc", "Photic 60Hz">>,
    <<"Vstroennyj sluhovoj stimulyator oba, 110 dB, 10 ms, Ton 1000 Gc, Szhatie, 1 Gc",
      "Auditory 1KHz">>,
    <<"Ostanovka stimulyacii", "Stim End">>,
    <<"Giperventilyaciya", "Hyperventilation">>,
    <<"Giperventilyaciya 1 min.", "Hypervent 1min">>,
    <<"Giperventilyaciya 2 min.", "Hypervent 2min">>,
    <<"Giperventilyaciya 3 min.", "Hypervent 3min">>,
    <<"Posle giperventilyacii", "Post-Hypervent">>,
    <<"Okonchanie Posle giperventilyacii", "Post-Hypervent End">>,
    <<"Razryv zapisi", "Recording Gap">> >>

\* dict.get(key, default)
DictGet(d, key, default) ==
    IF \E k \in 1..Len(d) : d[k][1] = key
    THEN d[CHOOSE k \in 1..Len(d) : d[k][1] = key][2]
    ELSE default

\* original_name.split('(')[0].split('[')[0].strip()
StripBrackets(original_name) ==
    Strip(SplitFirst(SplitFirst(original_name, "("), "["))

\* a faulty simplifier that keeps the raw text
simplify_segment_name_identity(original_name) == original_name

simplify_segment_name(original_name) ==
    DictGet(name_mapping, StripBrackets(original_name),
            StripBrackets(StripBrackets(original_name)))

---------------------------------------------------------------------------
(* EventProcessor.EXCLUDED_NAMES of core/event_processor.py *)

EXCLUDED_NAMES == {
    "stimFlash", "Artefakt", "Nachalo pechati", "Okonchanie pechati",
    "Epileptiformnaya aktivnost",
    "Kompleks \"ostraya volna - medlennaya volna\"",
    "Mnozhestvennye spajki i ostrye volny", "Razryv zapisi" }

---------------------------------------------------------------------------
(* The recording as mne hands it to the engine *)

\* raw.info['sfreq'] of the recordings considered
SfreqChoices == {100}

\* raw.n_times of the recordings considered: the last sample is NTimes - 1
NTimes == 3001

\* sample indices at which an annotation may sit: at 100 Hz the times 25 s and 30 s
\* (the last sample), so that windows of 0 s and 5 s occur
SampleChoices == {2500, NTimes - 1}

STIM_FLASH == "stimFlash"
ARTEFAKT == "Artefakt"
FOTOSTIM == "Fotostimulyaciya [1]"
VSTROENNYJ == "Vstroennyj fotostimulyator oba, 50 ms, 4 Gc"

\* the annotation texts considered, in Python's string order of the original texts
\* (ASCII before Cyrillic; in Cyrillic A < V < F)
DescriptionOrder == <<STIM_FLASH, ARTEFAKT, VSTROENNYJ, FOTOSTIM>>

Descriptions == {DescriptionOrder[k] : k \in 1..Len(DescriptionOrder)}

\* the names get_event_name can return for these recordings
EventNames == Descriptions \cup {"Unknown"}

\* _simplify_segment_name of each event name, computed once
SimplifiedName == [name \in EventNames |-> simplify_segment_name(name)]

\* line 202: "Fotostimulyaciya" in current_name, computed once per event name
IsStimulationOnset == [name \in EventNames |-> Contains("Fotostimulyaciya", name)]

\* line 204: "Vstroennyj fotostimulyator" in next_name, computed once per event name
IsStimulationParameter ==
    [name \in EventNames |-> Contains("Vstroennyj fotostimulyator", name)]

\* an annotation is <<sample, description>>; stimFlash sorts first among the
\* descriptions, so it always has code 1, and one position of it is considered
AnnotationChoices ==
    (SampleChoices \X (Descriptions \ {STIM_FLASH})) \cup {<<NTimes - 1, STIM_FLASH>>}

AnnotationLists == UNION {[1..n -> AnnotationChoices] : n \in 0..MaxEvents}

\* raw.annotations of the recording read from the file: mne omits an annotation
\* that begins later than one sample after the last sample, and keeps the others
\* sorted by onset, those of one onset (their durations being equal) in the order
\* of the file
AnnotationsOf(annotations) ==
    LET inside == SelectSeq(annotations, LAMBDA a : a[1] <= NTimes)
        place(k) == Cardinality({h \in 1..Len(inside) :
                                    \/ inside[h][1] < inside[k][1]
                                    \/ (inside[h][1] = inside[k][1] /\ h <= k)})
    IN  [p \in 1..Len(inside) |-> inside[CHOOSE k \in 1..Len(inside) : place(k) = p]]

\* mne.events_from_annotations: the descriptions present, sorted, get the codes 1, 2, ...
EventIdOf(annotations) ==
    LET kept == AnnotationsOf(annotations)
        present == {kept[k][2] : k \in 1..Len(kept)}
        names == SelectSeq(DescriptionOrder, LAMBDA d : d \in present)
    IN  [k \in 1..Len(names) |-> <<names[k], k>>]

CodeOf(description, ev_id) ==
    ev_id[CHOOSE k \in 1..Len(ev_id) : ev_id[k][1] = description][2]

\* mne.events_from_annotations: one row [sample, 0, code] per annotation of the
\* recording, in their order
EventsOf(annotations) ==
    LET kept == AnnotationsOf(annotations)
        ev_id == EventIdOf(annotations)
    IN  [k \in 1..Len(kept) |-> <<kept[k][1], 0, CodeOf(kept[k][2], ev_id)>>]

---------------------------------------------------------------------------
(* EDFSegmentor.process *)

\* event[0] / self.raw.info['sfreq'], in milliseconds
TimeWithoutSfreq(sample, r) == sample * MillisPerSecond

TimeOf(sample, r) == (sample * MillisPerSecond) \div r.sfreq

\* the recording end taken one sample too late: n_times / sfreq
LastTimePastEnd(r) == (r.n_times * MillisPerSecond) \div r.sfreq

\* self.raw.times[-1], in milliseconds
LastTime(r) == ((r.n_times - 1) * MillisPerSecond) \div r.sfreq

\* raw.copy().crop(tmin, tmax) raises ValueError on a window outside the recording
CropRaises(r, tmin, tmax) == tmin > tmax \/ tmin < 0 \/ tmax > LastTime(r)

\* the payload of raw.copy().crop(tmin, tmax): the window of the copy
Crop(r, tmin, tmax) == [tmin |-> tmin, tmax |-> tmax]

Keys(d) == {d[k].key : k \in 1..Len(d)}

\* a mapping that iterates from the newest item to the oldest
SetItemInFront(d, item) == <<item>> \o d

\* d[key] = item: a present key keeps its place, a new one goes last
SetItem(d, item) ==
    IF item.key \in Keys(d)
    THEN [k \in 1..Len(d) |-> IF d[k].key = item.key THEN item ELSE d[k]]
    ELSE Append(d, item)

\* lines 189-194: drop code 1, resolve the names
FilteredEvents(evs, ev_id) ==
    LET kept == SelectSeq(evs, LAMBDA event : event[3] # 1)
    IN  [k \in 1..Len(kept) |->
            <<kept[k][1], kept[k][3], get_event_name(kept[k][3], ev_id)>>]

\* lines 198-209: the while loop, i counted from 1
RECURSIVE GroupLoop(_, _, _)
GroupLoop(filtered_events, i, grouped_events) ==
    IF i > Len(filtered_events) THEN grouped_events
    ELSE IF /\ IsStimulationOnset[filtered_events[i][3]]
            /\ i + 1 <= Len(filtered_events)
            /\ IsStimulationParameter[filtered_events[i + 1][3]]
         THEN GroupLoop(filtered_events, i + 2,
                        Append(grouped_events,
                               <<filtered_events[i][1], filtered_events[i + 1][2],
                                 filtered_events[i + 1][3]>>))
         ELSE GroupLoop(filtered_events, i + 1,
                        Append(grouped_events, filtered_events[i]))

\* a grouping that keeps every event as it is
GroupedEventsUncollapsed(filtered_events) == filtered_events

GroupedEvents(filtered_events) == GroupLoop(filtered_events, 1, <<>>)

\* Python floats are IEEE doubles: 52 fraction bits, results rounded to nearest,
\* ties to even
FractionBits == 52

RECURSIVE Pow2(_)
Pow2(n) == IF n = 0 THEN 1 ELSE 2 * Pow2(n - 1)

\* 2^n mod m
RECURSIVE Pow2Mod(_, _)
Pow2Mod(n, m) == IF n = 0 THEN 1 % m ELSE (2 * Pow2Mod(n - 1, m)) % m

\* the binary exponent of num/den > 0: the e with 2^e <= num/den < 2^(e+1)
BinaryExponent(num, den) ==
    IF num >= den
    THEN CHOOSE e \in 0..15 : Pow2(e) * den <= num /\ num < Pow2(e + 1) * den
    ELSE 0 - (CHOOSE j \in 1..15 : num * Pow2(j) >= den /\ num * Pow2(j - 1) < den)

\* the largest e with 2^e <= m, and whether m is a power of two
FloorLog2(m) == CHOOSE e \in 0..15 : Pow2(e) <= m /\ m < Pow2(e + 1)

IsPowerOfTwo(m) == Pow2(FloorLog2(m)) = m

\* the double nearest to ms/1000 s, which is what sample / sfreq gives for a time
\* of ms milliseconds: [k, delta] with double = ms/1000 + delta / (1000 * 2^k),
\* 2^-k being the spacing of the doubles around it
FloatOfMillis(ms) ==
    LET k == FractionBits - BinaryExponent(ms, MillisPerSecond)
        rem == ((ms % MillisPerSecond) * Pow2Mod(k, MillisPerSecond)) % MillisPerSecond
        rem2 == ((ms % (2 * MillisPerSecond)) * Pow2Mod(k, 2 * MillisPerSecond))
                    % (2 * MillisPerSecond)
        odd == rem2 - rem = MillisPerSecond
        up == 2 * rem > MillisPerSecond \/ (2 * rem = MillisPerSecond /\ odd)
    IN  [k |-> k, delta |-> IF up THEN MillisPerSecond - rem ELSE 0 - rem]

\* end_time - start_time as the float subtraction of line 213 gives it, against a
\* whole number of seconds m >= 1, when the times are exactly m seconds apart:
\* -1 below m, 0 equal, 1 above
FloatDifferenceAgainst(start_time, end_time, m) ==
    LET fb == FloatOfMillis(end_time)
        fa == IF start_time = 0 THEN [k |-> fb.k, delta |-> 0]
              ELSE FloatOfMillis(start_time)
        \* the exact difference of the two doubles is m + units * 2^-fa.k
        units == (fb.delta * Pow2(fa.k - fb.k) - fa.delta) \div MillisPerSecond
        k_below == FractionBits
                     - (IF IsPowerOfTwo(m) THEN FloorLog2(m) - 1 ELSE FloorLog2(m))
        k_above == FractionBits - FloorLog2(m)
    IN  IF units = 0 THEN 0
        ELSE IF units < 0
        THEN (IF fa.k <= k_below \/ 0 - units > Pow2(fa.k - k_below - 1)
              THEN -1 ELSE 0)
        ELSE (IF fa.k <= k_above \/ units > Pow2(fa.k - k_above - 1) THEN 1 ELSE 0)

\* the sign of (end_time - start_time) - min_duration in float arithmetic, for
\* times in exact milliseconds below 64 s and a whole number of seconds
\* min_duration >= 1: times that are not exactly min_duration apart differ from
\* it by a millisecond or more, far above the rounding errors
FloatDurationCmp(start_time, end_time, min_duration) ==
    LET exact == end_time - start_time - min_duration * MillisPerSecond
    IN  IF exact < 0 THEN -1
        ELSE IF exact > 0 THEN 1
        ELSE IF start_time = end_time THEN 0
        ELSE FloatDifferenceAgainst(start_time, end_time, min_duration)

\* a duration test in exact decimal arithmetic, without the rounding of floats
TooShortExact(start_time, end_time, min_duration) ==
    /\ ~IsNaN(min_duration)
    /\ end_time - start_time < min_duration * MillisPerSecond

\* line 213: end_time - start_time < settings.MIN_SEGMENT_DURATION, in floats;
\* every comparison with nan is False
TooShort(start_time, end_time, min_duration) ==
    /\ ~IsNaN(min_duration)
    /\ FloatDurationCmp(start_time, end_time, min_duration) < 0

\* lines 215-226: one retained window
InteriorItem(grouped_events, i, r, d) ==
    LET start_time == TimeOf(grouped_events[i][1], r)
        end_time == TimeOf(grouped_events[i + 1][1], r)
        simplified_name == SimplifiedName[grouped_events[i][3]]
    IN  [key |-> generate_segment_name(simplified_name, Keys(d)),
         start_time |-> start_time,
         end_time |-> end_time,
         current_event |-> simplified_name,
         next_event |-> SimplifiedName[grouped_events[i + 1][3]],
         data |-> Crop(r, start_time, end_time)]

\* a crop made on self.raw itself: the recording shrinks to the window
RawCroppedInPlace(r, tmin, tmax) ==
    [sfreq |-> r.sfreq, n_times |-> ((tmax - tmin) * r.sfreq) \div MillisPerSecond + 1]

\* self.raw after self.raw.copy().crop(tmin, tmax): crop works on the copy
RawAfterCrop(r, tmin, tmax) == r

\* lines 210-226: the for loop, i counted from 1; st = [seg_dict, stored, raised, raw],
\* raw being self.raw as the loop reads it
RECURSIVE InteriorLoop(_, _, _, _)
InteriorLoop(grouped_events, i, min_duration, st) ==
    IF i > Len(grouped_events) - 1 THEN st
    ELSE IF TooShort(TimeOf(grouped_events[i][1], st.raw),
                     TimeOf(grouped_events[i + 1][1], st.raw), min_duration)
         THEN InteriorLoop(grouped_events, i + 1, min_duration, st)
    ELSE IF CropRaises(st.raw, TimeOf(grouped_events[i][1], st.raw),
                       TimeOf(grouped_events[i + 1][1], st.raw))
         THEN [st EXCEPT !.raised = TRUE]
    ELSE InteriorLoop(grouped_events, i + 1, min_duration,
            [seg_dict |-> SetItem(st.seg_dict,
                                  InteriorItem(grouped_events, i, st.raw, st.seg_dict)),
             stored |-> st.stored + 1,
             raised |-> FALSE,
             raw |-> RawAfterCrop(st.raw, TimeOf(grouped_events[i][1], st.raw),
                                  TimeOf(grouped_events[i + 1][1], st.raw))])

\* a trailing window that begins at the first event instead of the last
TrailingItemFromFirstEvent(grouped_events, r, d) ==
    LET last_time == TimeOf(grouped_events[1][1], r)
        simplified_name == SimplifiedName[grouped_events[1][3]]
    IN  [key |-> generate_segment_name(simplified_name, Keys(d)),
         start_time |-> last_time,
         end_time |-> LastTime(r),
         current_event |-> simplified_name,
         next_event |-> "End",
         data |-> Crop(r, last_time, LastTime(r))]

\* lines 228-239: the window of the last event
TrailingItem(grouped_events, r, d) ==
    LET last_time == TimeOf(grouped_events[Len(grouped_events)][1], r)
        simplified_name == SimplifiedName[grouped_events[Len(grouped_events)][3]]
    IN  [key |-> generate_segment_name(simplified_name, Keys(d)),
         start_time |-> last_time,
         end_time |-> LastTime(r),
         current_event |-> simplified_name,
         next_event |-> "End",
         data |-> Crop(r, last_time, LastTime(r))]

\* lines 227-239
Trailing(grouped_events, st) ==
    IF st.raised \/ Len(grouped_events) = 0 THEN st
    ELSE IF CropRaises(st.raw, TimeOf(grouped_events[Len(grouped_events)][1], st.raw),
                       LastTime(st.raw))
         THEN [st EXCEPT !.raised = TRUE]
    ELSE [seg_dict |-> SetItem(st.seg_dict,
                               TrailingItem(grouped_events, st.raw, st.seg_dict)),
          stored |-> st.stored + 1,
          raised |-> FALSE,
          raw |-> RawAfterCrop(st.raw,
                               TimeOf(grouped_events[Len(grouped_events)][1], st.raw),
                               LastTime(st.raw))]

\* lines 198-240 for a recording that passed the checks
Segmentation(r, evs, ev_id, d, min_duration) ==
    LET grouped_events == GroupedEvents(FilteredEvents(evs, ev_id))
        st0 == [seg_dict |-> d, stored |-> 0, raised |-> FALSE, raw |-> r]
    IN  Trailing(grouped_events, InteriorLoop(grouped_events, 1, min_duration, st0))

\* a process() that lost its check of self.raw
NoRecordingUnchecked(rw) == FALSE

\* line 182: self.raw is None
NoRecording(rw) == rw = None

\* process(): [seg_dict, stored, outcome, raw]; raw is self.raw after the call,
\* outcome is the exception raised
\* ("Exception" of line 184, "TypeError" of len(None), "ValueError" of crop) or
\* the place process() returned from
Process(rw, evs, ev_id, d, min_duration) ==
    IF NoRecording(rw)
    THEN [seg_dict |-> d, stored |-> 0, outcome |-> "Exception", raw |-> rw]
    ELSE IF evs = None
    THEN [seg_dict |-> d, stored |-> 0, outcome |-> "TypeError", raw |-> rw]
    ELSE IF Len(Value(evs)) < 2
    THEN [seg_dict |-> d, stored |-> 0, outcome |-> "insufficient_events", raw |-> rw]
    ELSE IF Len(FilteredEvents(Value(evs), Value(ev_id))) < 2
    THEN [seg_dict |-> d, stored |-> 0, outcome |-> "no_valid_events", raw |-> rw]
    ELSE LET st == Segmentation(Value(rw), Value(evs), Value(ev_id), d, min_duration)
         IN  [seg_dict |-> st.seg_dict, stored |-> st.stored,
              outcome |-> IF st.raised THEN "ValueError" ELSE "segmented",
              raw |-> Some(st.raw)]

---------------------------------------------------------------------------
(* The application: edf_app.py *)

\* the text of min_duration_entry as float() sees it: None when float() raises
\* ValueError, Some(v) when it is the number v
EntryChoices ==
    {None, Some(0), Some(DefaultMinSegmentDuration), Some(DefaultMinSegmentDuration + 1)}

\* the same with the text "nan", which float() accepts
EntryChoicesWithNaN == EntryChoices \cup {Some(NaN)}

\* float(entry) raised, or the value is <= 0: both end in the ValueError handler;
\* nan <= 0 is False
EntryRejected(entry) ==
    entry = None \/ (~IsNaN(Value(entry)) /\ Value(entry) <= 0)

\* the step of load_metadata at which it may raise ("none": it returns)
LoadSteps == {"read_raw_edf", "events_from_annotations", "format_output", "none"}

\* the files considered: a file is unreadable, or has annotations mne cannot turn
\* into events, or is sound (what such a file holds past the failing step is never read)
EdfFiles ==
    [annotations : AnnotationLists, sfreq : SfreqChoices, defect : {"none"}]
    \cup [annotations : {<<>>}, sfreq : SfreqChoices,
          defect : {"read_raw_edf", "events_from_annotations"}]

Init ==
    /\ has_segmentor = FALSE
    /\ raw = None
    /\ events = None
    /\ event_id = None
    /\ seg_dict = <<>>
    /\ MIN_SEGMENT_DURATION = DefaultMinSegmentDuration
    /\ outcome = "init"
    /\ runs = 0
    /\ stored = 0
    /\ edf_file \in EdfFiles
    /\ NamesIdle
    /\ OthersIdle

\* load_edf_file: a new EDFSegmentor, then load_metadata, which raises at the file's
\* defect or, for a sound file, possibly while the output is formatted
LoadEdfFile ==
    \E fail_at \in LoadSteps :
        /\ IF edf_file.defect = "none"
           THEN fail_at \in {"format_output", "none"}
           ELSE fail_at = edf_file.defect
        /\ has_segmentor' = TRUE
        /\ seg_dict' = <<>>
        /\ runs' = 0
        /\ stored' = 0
        /\ raw' = IF fail_at = "read_raw_edf" THEN None
                  ELSE Some([sfreq |-> edf_file.sfreq, n_times |-> NTimes])
        /\ events' = IF fail_at \in {"read_raw_edf", "events_from_annotations"}
                     THEN None ELSE Some(EventsOf(edf_file.annotations))
        /\ event_id' = IF fail_at \in {"read_raw_edf", "events_from_annotations"}
                       THEN None ELSE Some(EventIdOf(edf_file.annotations))
        /\ outcome' = IF fail_at = "none" THEN "loaded" ELSE "load_failed"
        /\ UNCHANGED <<MIN_SEGMENT_DURATION, edf_file>>
        /\ UNCHANGED <<names_vars, other_vars>>

\* apply_min_duration with the entry text among entries: a rejected entry only
\* shows a message box
ApplyMinDurationFrom(entries) ==
    \E entry \in entries :
        /\ MIN_SEGMENT_DURATION' =
               IF EntryRejected(entry) THEN MIN_SEGMENT_DURATION ELSE Value(entry)
        /\ UNCHANGED <<has_segmentor, raw, events, event_id, seg_dict, outcome, runs,
                       stored, edf_file>>
        /\ UNCHANGED <<names_vars, other_vars>>

ApplyMinDuration == ApplyMinDurationFrom(EntryChoices)

\* split_into_segments with the entry text among entries: nothing without a
\* segmentor, a message box for a rejected entry, else the setting is written and
\* process() is called
SplitIntoSegmentsFrom(entries) ==
    \E entry \in entries :
        IF ~has_segmentor \/ EntryRejected(entry)
        THEN UNCHANGED vars
        ELSE /\ runs < MaxRuns
             /\ MIN_SEGMENT_DURATION' = Value(entry)
             /\ LET res == Process(raw, events, event_id, seg_dict, Value(entry))
                IN  /\ seg_dict' = res.seg_dict
                    /\ stored' = res.stored
                    /\ outcome' = res.outcome
                    /\ raw' = res.raw
             /\ runs' = runs + 1
             /\ UNCHANGED <<has_segmentor, events, event_id, edf_file>>
             /\ UNCHANGED <<names_vars, other_vars>>

SplitIntoSegments == SplitIntoSegmentsFrom(EntryChoices)

Next == LoadEdfFile \/ ApplyMinDuration \/ SplitIntoSegments

Spec == Init /\ [][Next]_vars

---------------------------------------------------------------------------
(* Vocabulary of the properties *)

\* a step that calls process()
ProcessStep == runs' = runs + 1

\* process() came back without raising
Returned(o) == o \in {"segmented", "insufficient_events", "no_valid_events"}

\* the items a process() step appended to the map
Added == SubSeq(seg_dict', Len(seg_dict) + 1, Len(seg_dict'))

DurationOf(seg) == seg.end_time - seg.start_time

\* Closer(opener): the bracket that ends a group begun by opener
Closer(opener) == IF opener = "[" THEN "]" ELSE ")"

\* the first position after i at which s holds ch, 0 when there is none
IndexAfter(ch, s, i) ==
    IF \E j \in (i + 1)..Len(s) : SubSeq(s, j, j) = ch
    THEN CHOOSE j \in (i + 1)..Len(s) :
            /\ SubSeq(s, j, j) = ch
            /\ \A h \in (i + 1)..(j - 1) : SubSeq(s, h, h) # ch
    ELSE 0

\* the first position from i on at which s opens a group that is closed later
\* with no line feed in between (the . of the pattern takes any character but a
\* line feed), 0 when there is none
GroupStart(s, i) ==
    LET starts == {j \in i..Len(s) :
                      /\ SubSeq(s, j, j) \in {"[", "("}
                      /\ IndexAfter(Closer(SubSeq(s, j, j)), s, j) > 0
                      /\ \A h \in (j + 1)..(IndexAfter(Closer(SubSeq(s, j, j)), s, j) - 1) :
                            SubSeq(s, h, h) # "\n"}
    IN  IF starts = {} THEN 0
        ELSE CHOOSE j \in starts : \A h \in starts : j <= h

\* re.sub(r'\[.*?\]|\(.*?\)', '', s) from position i on: every bracketed group is
\* cut out, a bracket that is not closed on its line stays
RECURSIVE RemoveBracketedFrom(_, _)
RemoveBracketedFrom(s, i) ==
    IF GroupStart(s, i) = 0 THEN SubSeq(s, i, Len(s))
    ELSE SubSeq(s, i, GroupStart(s, i) - 1)
            \o RemoveBracketedFrom(s,
                  IndexAfter(Closer(SubSeq(s, GroupStart(s, i), GroupStart(s, i))),
                             s, GroupStart(s, i)) + 1)

RemoveBracketed(s) == RemoveBracketedFrom(s, 1)

\* the exclusion test of event_processor.EventProcessor._clean_event_name
IsExcludedName == [name \in EventNames |->
    Strip(RemoveBracketed(name)) \in EXCLUDED_NAMES \/ name \in EXCLUDED_NAMES]

\* the events of the loaded recording whose label is not excluded, as
\* <<time, label>>, in the order of the event list
ValidTimeline ==
    LET evs == Value(events)
        named == [k \in 1..Len(evs) |->
                    <<TimeOf(evs[k][1], Value(raw)),
                      get_event_name(evs[k][3], Value(event_id))>>]
    IN  SelectSeq(named, LAMBDA e : ~IsExcludedName[e[2]])

\* the annotations of the file are in chronological order
Chronological(annotations) ==
    \A k \in 1..(Len(annotations) - 1) : annotations[k][1] <= annotations[k + 1][1]

---------------------------------------------------------------------------
(* C1: duration floor. Right after process() has returned, every segment in
   seg_dict, the trailing one included, lasts at least MIN_SEGMENT_DURATION. *)
C1_DurationFloor ==
    [][(ProcessStep /\ Returned(outcome'))
        => \A k \in 1..Len(seg_dict') :
              DurationOf(seg_dict'[k]) >= MIN_SEGMENT_DURATION' * MillisPerSecond]_vars

(* C2: non-overlap. The segments one process() run produces are pairwise
   non-overlapping: of any two of them one ends before or when the other begins,
   so that, put in the order of their start times, each ends before or when the
   next one begins. *)
C2_NonOverlap ==
    [][(ProcessStep /\ Returned(outcome'))
        => \A i, j \in 1..Len(Added) :
              i < j => \/ Added[i].end_time <= Added[j].start_time
                       \/ Added[j].end_time <= Added[i].start_time]_vars

\* one run stored two segments that touch: from 25 s to 30 s, and the trailing
\* one of an event on the last sample
C2_Witness ==
    /\ runs = 1
    /\ outcome = "segmented"
    /\ Len(seg_dict) = 2
    /\ seg_dict[1].start_time = 25 * MillisPerSecond
    /\ seg_dict[1].end_time = 30 * MillisPerSecond
    /\ seg_dict[2].start_time = 30 * MillisPerSecond

(* C3: fresh map per invocation. After any process() call that returned, seg_dict
   is exactly what that invocation computes from the loaded recording, so a second
   call in a row leaves the map as the first one made it. *)
C3_FreshMap ==
    [][(ProcessStep /\ Returned(outcome'))
        => seg_dict' = Process(raw, events, event_id, <<>>,
                               MIN_SEGMENT_DURATION').seg_dict]_vars

(* C4: exclusion removal. No segment has a predecessor or successor label of the
   exclusion set. *)
C4_ExclusionRemoval ==
    \A k \in 1..Len(seg_dict) :
        /\ seg_dict[k].current_event \notin EXCLUDED_NAMES
        /\ seg_dict[k].next_event \notin EXCLUDED_NAMES

(* C5: name uniqueness without loss. One process() run gives every retained window
   its own key: the map grows by exactly the number of windows it stored, the
   items that were there stay as they were, and all keys differ. *)
C5_UniqueNamesNoLoss ==
    [][ProcessStep
        => /\ Len(seg_dict') = Len(seg_dict) + stored'
           /\ SubSeq(seg_dict', 1, Len(seg_dict)) = seg_dict
           /\ \A i, j \in 1..Len(seg_dict') :
                 i # j => seg_dict'[i].key # seg_dict'[j].key]_vars

\* one run has stored two windows of the same label: the second got a suffixed key
C5_Witness ==
    /\ runs = 1
    /\ stored >= 2
    /\ \E i, j \in 1..Len(seg_dict) :
          /\ i < j
          /\ seg_dict[i].current_event = seg_dict[j].current_event
          /\ seg_dict[i].key = seg_dict[i].current_event
          /\ seg_dict[j].key = seg_dict[j].current_event \o "_1"

(* C6: segment bounds. Every stored segment has 0 <= start_time < end_time <= the
   end of the recording. *)
C6_SegmentBounds ==
    \A k \in 1..Len(seg_dict) :
        /\ 0 <= seg_dict[k].start_time
        /\ seg_dict[k].start_time < seg_dict[k].end_time
        /\ seg_dict[k].end_time <= LastTime(Value(raw))

(* C7: precondition failure. process() on an engine without a recording raises the
   exception of line 184 and leaves seg_dict, events and event_id as they were. *)
C7_NoRecordingRaises ==
    [][(ProcessStep /\ raw = None)
        => /\ outcome' = "Exception"
           /\ stored' = 0
           /\ seg_dict' = seg_dict
           /\ events' = events
           /\ event_id' = event_id
           /\ raw' = raw]_vars

\* process() was called on the engine a failed read_raw_edf left behind
C7_Witness ==
    /\ has_segmentor
    /\ raw = None
    /\ runs >= 1
    /\ outcome = "Exception"

(* C8: an empty result is not an error. When the event list is empty, or every
   event has an excluded label, or fewer than 2 events with a label that is not
   excluded remain, the first process() run on the loaded recording returns
   normally and the map is empty. *)
C8_EmptyResult ==
    [][(ProcessStep /\ seg_dict = <<>> /\ events # None /\ Len(ValidTimeline) < 2)
        => /\ Returned(outcome')
           /\ seg_dict' = <<>>]_vars

(* C9: leading segment. Whenever the first valid event lies more than
   MIN_SEGMENT_DURATION after the recording start, the map process() produces holds
   a segment from 0 to that event, from "Start" to the first event's label; with a
   single valid event this is the only segment of the run besides a retained
   trailing one. *)
C9_LeadingSegment ==
    [][(/\ ProcessStep
        /\ events # None
        /\ Len(ValidTimeline) >= 1
        /\ ValidTimeline[1][1] > MIN_SEGMENT_DURATION' * MillisPerSecond)
        => /\ Returned(outcome')
           /\ \E k \in 1..Len(seg_dict') :
                 /\ seg_dict'[k].start_time = 0
                 /\ seg_dict'[k].end_time = ValidTimeline[1][1]
                 /\ seg_dict'[k].current_event = "Start"
                 /\ seg_dict'[k].next_event = SimplifiedName[ValidTimeline[1][2]]]_vars

\* the grouped event list of the loaded recording, as <<time, label>>
GroupedTimeline ==
    LET grouped_events ==
            GroupedEvents(FilteredEvents(Value(events), Value(event_id)))
    IN  [k \in 1..Len(grouped_events) |->
            <<TimeOf(grouped_events[k][1], Value(raw)),
              SimplifiedName[grouped_events[k][3]]>>]

\* the windows between consecutive grouped events that last at least min_duration,
\* in the order of the list
RetainedWindows(timeline, min_duration) ==
    LET pairs == [k \in 1..(Len(timeline) - 1) |->
                    [start_time |-> timeline[k][1],
                     end_time |-> timeline[k + 1][1],
                     current_event |-> timeline[k][2],
                     next_event |-> timeline[k + 1][2]]]
    IN  SelectSeq(pairs,
                  LAMBDA w : w.end_time - w.start_time >= min_duration * MillisPerSecond)

\* what a stored item says about its window
WindowOf(item) ==
    [start_time |-> item.start_time, end_time |-> item.end_time,
     current_event |-> item.current_event, next_event |-> item.next_event]

\* time(next) - time(current) >= min_duration, the times being the floats that
\* sample / sfreq gives and the difference the float difference of the two
FloatDurationAtLeast(start_time, end_time, min_duration) ==
    /\ ~IsNaN(min_duration)
    /\ FloatDurationCmp(start_time, end_time, min_duration) >= 0

\* the consecutive pairs of the timeline whose float times differ by at least
\* min_duration, in the order of the list
FloatRetainedWindows(timeline, min_duration) ==
    LET pairs == [k \in 1..(Len(timeline) - 1) |->
                    [start_time |-> timeline[k][1],
                     end_time |-> timeline[k + 1][1],
                     current_event |-> timeline[k][2],
                     next_event |-> timeline[k + 1][2]]]
    IN  SelectSeq(pairs,
                  LAMBDA w : FloatDurationAtLeast(w.start_time, w.end_time, min_duration))

(* C10: interior windows. A process() run that segments stores, before the trailing
   segment, exactly one segment per consecutive pair (current, next) of the grouped
   event list with time(next) - time(current) >= MIN_SEGMENT_DURATION, the times
   being the floats sample / sfreq, with the times and labels of that pair, and
   nothing for the other pairs. *)
C10_InteriorWindows ==
    [][(ProcessStep /\ outcome' = "segmented")
        => /\ Len(Added) >= 1
           /\ [k \in 1..(Len(Added) - 1) |-> WindowOf(Added[k])]
                 = FloatRetainedWindows(GroupedTimeline, MIN_SEGMENT_DURATION')]_vars

\* events at 3.04 s, 8.04 s and 25 s with a minimum of 5 s: the float difference
\* 8.04 - 3.04 is below 5.0 and nothing was stored for that pair, the window from
\* 8.04 s to 25 s was stored before the trailing one
C10_Witness ==
    /\ runs = 1
    /\ outcome = "segmented"
    /\ MIN_SEGMENT_DURATION = 5
    /\ [k \in 1..Len(GroupedTimeline) |-> GroupedTimeline[k][1]] = <<3040, 8040, 25000>>
    /\ Len(seg_dict) = 2
    /\ seg_dict[1].start_time = 8040
    /\ seg_dict[1].end_time = 25000
    /\ seg_dict[2].next_event = "End"

(* C11: trailing window. A process() run that segments stores, as its last
   segment, the window of the last grouped event: from that event's time to the
   time of the last sample of the recording, from the event's label to "End". *)
C11_TrailingWindow ==
    [][(ProcessStep /\ outcome' = "segmented")
        => /\ Len(Added) >= 1
           /\ LET last_event == GroupedTimeline[Len(GroupedTimeline)]
                  r == Value(raw)
              IN  WindowOf(Added[Len(Added)])
                    = [start_time |-> last_event[1],
                       end_time |-> ((r.n_times - 1) * MillisPerSecond) \div r.sfreq,
                       current_event |-> last_event[2],
                       next_event |-> "End"]]_vars

\* one run stored the trailing segment from 25 s to the recording end at 30 s
C11_Witness ==
    /\ runs = 1
    /\ outcome = "segmented"
    /\ Len(seg_dict) = 1
    /\ seg_dict[1].next_event = "End"
    /\ seg_dict[1].start_time = 25 * MillisPerSecond
    /\ seg_dict[1].end_time = 30 * MillisPerSecond

---------------------------------------------------------------------------
(* Scenario A: a recording of 30 s at 100 Hz with events at the samples 0, 500
   and 2500 *)

ScenarioASamples == <<0, 500, 2500>>

\* the recordings of the scenario: the three events carry labels that are not
\* excluded; the file may hold a stimFlash annotation on the last sample as well
ScenarioAFiles ==
    LET labelled ==
            {[k \in 1..3 |-> <<ScenarioASamples[k], labels[k]>>] :
                labels \in [1..3 -> {FOTOSTIM, VSTROENNYJ}]}
    IN  [annotations : labelled \cup {Append(a, <<NTimes - 1, STIM_FLASH>>) : a \in labelled},
         sfreq : SfreqChoices,
         defect : {"none"}]

\* the application right after its construction, about to open a scenario file
ScenarioAInit ==
    /\ has_segmentor = FALSE
    /\ raw = None
    /\ events = None
    /\ event_id = None
    /\ seg_dict = <<>>
    /\ MIN_SEGMENT_DURATION = DefaultMinSegmentDuration
    /\ outcome = "init"
    /\ runs = 0
    /\ stored = 0
    /\ edf_file \in ScenarioAFiles
    /\ NamesIdle
    /\ OthersIdle

ScenarioASpec == ScenarioAInit /\ [][Next]_vars

---------------------------------------------------------------------------
(* A recording of 30 s at 100 Hz with events at the samples 304, 804 and 2500:
   the times 3.04 and 8.04 are not binary fractions, and the difference of the
   two doubles is 4.999999999999999 *)

RoundingSamples == <<304, 804, 2500>>

\* the recordings: the three events carry labels that are not excluded; the file
\* may hold a stimFlash annotation on the last sample as well
RoundingFiles ==
    LET labelled ==
            {[k \in 1..3 |-> <<RoundingSamples[k], labels[k]>>] :
                labels \in [1..3 -> {FOTOSTIM, VSTROENNYJ}]}
    IN  [annotations : labelled \cup {Append(a, <<NTimes - 1, STIM_FLASH>>) : a \in labelled},
         sfreq : SfreqChoices,
         defect : {"none"}]

\* the application right after its construction, about to open such a recording
RoundingInit ==
    /\ has_segmentor = FALSE
    /\ raw = None
    /\ events = None
    /\ event_id = None
    /\ seg_dict = <<>>
    /\ MIN_SEGMENT_DURATION = DefaultMinSegmentDuration
    /\ outcome = "init"
    /\ runs = 0
    /\ stored = 0
    /\ edf_file \in RoundingFiles
    /\ NamesIdle
    /\ OthersIdle

RoundingSpec == RoundingInit /\ [][Next]_vars

\* no onset event of the valid timeline is directly followed by a parameter event
NothingToCollapse ==
    \A k \in 1..(Len(ValidTimeline) - 1) :
        ~(IsStimulationOnset[ValidTimeline[k][2]]
            /\ IsStimulationParameter[ValidTimeline[k + 1][2]])

(* C12: Scenario A. With valid events at 0 s, 5 s and 25 s in a recording of 30 s
   and MIN_SEGMENT_DURATION = 5, the first process() run returns with exactly two
   segments in the map: the interior one from 5 s to 25 s and the trailing one
   from 25 s to 30 s. *)
C12_ScenarioA ==
    [][(/\ ProcessStep
        /\ seg_dict = <<>>
        /\ events # None
        /\ MIN_SEGMENT_DURATION' = 5
        /\ [k \in 1..Len(ValidTimeline) |-> ValidTimeline[k][1]]
              = <<0, 5 * MillisPerSecond, 25 * MillisPerSecond>>
        /\ NothingToCollapse)
        => /\ Returned(outcome')
           /\ [k \in 1..Len(seg_dict') |->
                 <<seg_dict'[k].start_time, seg_dict'[k].end_time>>]
                 = << <<5 * MillisPerSecond, 25 * MillisPerSecond>>,
                      <<25 * MillisPerSecond, 30 * MillisPerSecond>> >>]_vars

---------------------------------------------------------------------------
(* EventProcessor of core/event_processor.py: generate_segment_name *)

\* lines 66-68: the while loop, one iteration per call
RECURSIVE event_processor_generate_segment_name_loop(_, _, _, _)
event_processor_generate_segment_name_loop(base, seg_name, counter, existing_names) ==
    IF seg_name \in existing_names
    THEN event_processor_generate_segment_name_loop(base,
                                                    base \o "_" \o ToString(counter),
                                                    counter + 1, existing_names)
    ELSE seg_name

\* an allocator whose counter starts at 0
event_processor_generate_segment_name_zero_based(base_name, existing_names) ==
    LET base == IF base_name # None THEN Value(base_name) ELSE "Unknown"
    IN  event_processor_generate_segment_name_loop(base, base, 0, existing_names)

\* lines 60-69; base_name is None or Some(text)
event_processor_generate_segment_name(base_name, existing_names) ==
    LET base == IF base_name # None THEN Value(base_name) ELSE "Unknown"
    IN  event_processor_generate_segment_name_loop(base, base, 1, existing_names)

---------------------------------------------------------------------------
(* EventProcessor of core/event_processor.py: _clean_event_name. In the
   transliteration "Gc" stands for the unit of frequency and "Ton" for the word
   that introduces a tone. *)

TRANSLATIONS == <<
    <<"Fonovaya zapis", "Baseline">>,
    <<"Otkryvanie glaz", "EyesOpen">>,
    <<"Zakryvanie glaz", "EyesClosed">>,
    <<"Bez stimulyacii", "Rest">>,
    <<"Fotostimulyaciya", "PhoticStim">>,
    <<"Posle fotostimulyacii", "PostPhotic">>,
    <<"Vstroennyj fotostimulyator", "Photic">>,
    <<"Vstroennyj sluhovoj stimulyator", "Auditory">>,
    <<"Ostanovka stimulyacii", "StimOff">>,
    <<"Giperventilyaciya", "Hypervent">>,
    <<"Posle giperventilyacii", "PostHypervent">>,
    <<"Bodrstvovanie", "Awake">> >>

\* \d
Digits == {"0", "1", "2", "3", "4", "5", "6", "7", "8", "9"}

\* s[i:].startswith(pattern), i counted from 1
StartsWithAt(s, i, pattern) ==
    /\ i + Len(pattern) - 1 <= Len(s)
    /\ SubSeq(s, i, i + Len(pattern) - 1) = pattern

\* the position after the digits that \d* takes from position i on
RECURSIVE DigitsEnd(_, _)
DigitsEnd(s, i) ==
    IF i <= Len(s) /\ SubSeq(s, i, i) \in Digits THEN DigitsEnd(s, i + 1) ELSE i

\* the position after the whitespace that \s* takes from position i on
RECURSIVE BlanksEnd(_, _)
BlanksEnd(s, i) ==
    IF i <= Len(s) /\ SubSeq(s, i, i) \in Whitespace THEN BlanksEnd(s, i + 1) ELSE i

\* r'(\d+)\s*Gc' matches s at position i
freq_match_at(s, i) ==
    /\ DigitsEnd(s, i) > i
    /\ StartsWithAt(s, BlanksEnd(s, DigitsEnd(s, i)), "Gc")

\* line 44, re.search(r'(\d+)\s*Gc', s): group 1 of the leftmost match, None or
\* Some(digits)
freq_match(s) ==
    LET starts == {i \in 1..Len(s) : freq_match_at(s, i)}
        first == CHOOSE i \in starts : \A h \in starts : i <= h
    IN  IF starts = {} THEN None
        ELSE Some(SubSeq(s, first, DigitsEnd(s, first) - 1))

\* r'Ton\s*(\d+)\s*Gc' matches s at position i
tone_match_at(s, i) ==
    /\ StartsWithAt(s, i, "Ton")
    /\ freq_match_at(s, BlanksEnd(s, i + 3))

\* line 45, re.search(r'Ton\s*(\d+)\s*Gc', s): group 1 of the leftmost match, None
\* or Some(digits)
tone_match(s) ==
    LET starts == {i \in 1..Len(s) : tone_match_at(s, i)}
        first == CHOOSE i \in starts : \A h \in starts : i <= h
        number == BlanksEnd(s, first + 3)
    IN  IF starts = {} THEN None
        ELSE Some(SubSeq(s, number, DigitsEnd(s, number) - 1))

\* re.sub(r'\[.*?\]|\(.*?\)', '', name).strip() of line 33
cleaned_name_of(name) == Strip(RemoveBracketed(name))

\* an exclusion test that looks at the raw label only
excluded_verbatim_only(cleaned_name, name) == name \in EXCLUDED_NAMES

\* line 35
excluded(cleaned_name, name) ==
    cleaned_name \in EXCLUDED_NAMES \/ name \in EXCLUDED_NAMES

\* a suffix rule that prefers the generic frequency to the tone
with_frequency_generic_first(en_name, name) ==
    IF freq_match(name) # None THEN en_name \o Value(freq_match(name)) \o "Hz"
    ELSE IF tone_match(name) # None THEN en_name \o Value(tone_match(name)) \o "Hz"
    ELSE en_name

\* lines 43-50: the tag, with the frequency of the raw label for a stimulation tag
with_frequency(en_name, name) ==
    IF Contains("Photic", en_name) \/ Contains("Auditory", en_name)
    THEN IF tone_match(name) # None THEN en_name \o Value(tone_match(name)) \o "Hz"
         ELSE IF freq_match(name) # None THEN en_name \o Value(freq_match(name)) \o "Hz"
         ELSE en_name
    ELSE en_name

\* a phrase test by equality
phrase_equals(ru_name, cleaned_name) == ru_name = cleaned_name

\* line 42: ru_name in cleaned_name
phrase_in(ru_name, cleaned_name) == Contains(ru_name, cleaned_name)

\* lines 41-52: the for loop over TRANSLATIONS.items(), k counted from 1
RECURSIVE translate_from(_, _, _)
translate_from(cleaned_name, name, k) ==
    IF k > Len(TRANSLATIONS) THEN cleaned_name
    ELSE IF phrase_in(TRANSLATIONS[k][1], cleaned_name)
         THEN with_frequency(TRANSLATIONS[k][2], name)
         ELSE translate_from(cleaned_name, name, k + 1)

\* lines 30-52: None for an excluded label, else Some(text)
clean_event_name(name) ==
    LET cleaned_name == cleaned_name_of(name)
    IN  IF excluded(cleaned_name, name) THEN None
        ELSE IF cleaned_name = "" THEN Some(IF name # "" THEN name ELSE "Unknown")
        ELSE Some(translate_from(cleaned_name, name, 1))

---------------------------------------------------------------------------
(* The methods of EventProcessor called on their own *)

\* raw annotation labels: excluded ones, bracketed ones, an empty one, translated
\* ones with and without a frequency, with a tone, with two phrases, unknown ones;
\* then labels with whitespace other than blanks (U+000B after "Artefakt" and
\* after "Ton", U+001C and U+001F around "Razryv zapisi [1]", U+001D, U+001F
\* and a line feed before "Gc", a line feed inside brackets) and labels with
\* brackets that cross or stay open
RawLabels == {
    "Artefakt", "Razryv zapisi [1]", "Artefakt [a\nb]",
    "Vstroennyj fotostimulyator 4Gc", "Vstroennyj fotostimulyator 7\nGc",
    "Vstroennyj sluhovoj stimulyator 1 Gc, Ton1000Gc",
    "Son (a [b) c]", "( [1] Son",
    "", "[1]", "stimFlash", "Artefakt [1]", "Razryv zapisi",
    "Fonovaya zapis", "Otkryvanie glaz, Fonovaya zapis", "Bodrstvovanie (1)",
    "Giperventilyaciya 1 min.", "Posle fotostimulyacii 3 Gc",
    "Fotostimulyaciya [10 Gc]",
    "Vstroennyj fotostimulyator oba", VSTROENNYJ,
    "Vstroennyj sluhovoj stimulyator oba, 110 dB, 10 ms, Ton 1000 Gc, Szhatie, 1 Gc",
    "Vstroennyj sluhovoj stimulyator 1 Gc, Ton 1000 Gc",
    "Son", "Ton 500 Gc" }

\* candidates of generate_segment_name
Candidates == {None, Some("Baseline"), Some("Baseline_1")}

\* names that may be in use before the first call
NamePool == {"Baseline", "Baseline_1", "Baseline_2", "Unknown", "Unknown_1"}

\* no file is open in the application
EngineIdle ==
    /\ has_segmentor = FALSE
    /\ raw = None
    /\ events = None
    /\ event_id = None
    /\ seg_dict = <<>>
    /\ MIN_SEGMENT_DURATION = DefaultMinSegmentDuration
    /\ outcome = "init"
    /\ runs = 0
    /\ stored = 0
    /\ edf_file = [annotations |-> <<>>, sfreq |-> 100, defect |-> "none"]

NamesInit ==
    /\ EngineIdle
    /\ OthersIdle
    /\ raw_label \in RawLabels
    /\ cleaned_label = None
    /\ candidate \in Candidates
    /\ used_names \in SUBSET NamePool
    /\ allocated_name = None
    /\ last_call = "none"
    /\ calls = 0

\* event_processor.EventProcessor._clean_event_name(raw_label)
CleanEventName ==
    /\ calls < MaxCalls
    /\ cleaned_label' = clean_event_name(raw_label)
    /\ last_call' = "event_processor._clean_event_name"
    /\ calls' = calls + 1
    /\ UNCHANGED <<raw_label, candidate, used_names, allocated_name>>
    /\ UNCHANGED <<engine_vars, other_vars>>

\* event_processor.EventProcessor.generate_segment_name(candidate, used_names)
GenerateSegmentName ==
    /\ calls < MaxCalls
    /\ allocated_name' = Some(event_processor_generate_segment_name(candidate, used_names))
    /\ last_call' = "event_processor.generate_segment_name"
    /\ calls' = calls + 1
    /\ UNCHANGED <<raw_label, cleaned_label, candidate, used_names>>
    /\ UNCHANGED <<engine_vars, other_vars>>

\* edf_segmentor.EventProcessor.generate_segment_name(candidate, seg_dict.keys())
\* followed by seg_dict[seg_name] = ..., as process() does at lines 218-226
SegmentorGenerateSegmentName ==
    /\ calls < MaxCalls
    /\ candidate # None
    /\ LET seg_name == generate_segment_name(Value(candidate), used_names)
       IN  /\ allocated_name' = Some(seg_name)
           /\ used_names' = used_names \cup {seg_name}
    /\ last_call' = "edf_segmentor.generate_segment_name"
    /\ calls' = calls + 1
    /\ UNCHANGED <<raw_label, cleaned_label, candidate>>
    /\ UNCHANGED <<engine_vars, other_vars>>

NamesNext == CleanEventName \/ GenerateSegmentName \/ SegmentorGenerateSegmentName

NamesSpec == NamesInit /\ [][NamesNext]_vars

\* the step is a call of one of the two generate_segment_name
AllocateStep ==
    /\ calls' = calls + 1
    /\ last_call' \in {"event_processor.generate_segment_name",
                       "edf_segmentor.generate_segment_name"}

\* the candidate as text: "Unknown" for None (event_processor.py line 63)
CandidateText == IF candidate = None THEN "Unknown" ELSE Value(candidate)

(* C13: allocator correctness. generate_segment_name never returns a name that is
   in use, and returns the candidate itself when the candidate is not in use. *)
C13_AllocatorCorrect ==
    [][AllocateStep
        => /\ allocated_name' # None
           /\ Value(allocated_name') \notin used_names
           /\ (CandidateText \notin used_names
                 => Value(allocated_name') = CandidateText)]_vars

\* a candidate in use was given another name, which is free
C13_Witness ==
    /\ last_call = "event_processor.generate_segment_name"
    /\ candidate = Some("Baseline")
    /\ "Baseline" \in used_names
    /\ allocated_name # None
    /\ Value(allocated_name) \notin used_names

\* base_k: the candidate with the integer suffix k
Suffixed(base, k) == base \o "_" \o ToString(k)

(* C14: first unused suffix. For a candidate that is in use, generate_segment_name
   returns candidate_k for the smallest k >= 1 such that candidate_k is not in
   use; so the names allocated one after the other for one label are c, c_1, ... *)
C14_FirstUnusedSuffix ==
    [][(AllocateStep /\ CandidateText \in used_names)
        => \E k \in 1..(Cardinality(used_names) + 1) :
              /\ allocated_name' = Some(Suffixed(CandidateText, k))
              /\ Suffixed(CandidateText, k) \notin used_names
              /\ \A j \in 1..(k - 1) : Suffixed(CandidateText, j) \in used_names]_vars

\* with no name in use at first, the second allocation for "Baseline" gave
\* "Baseline_1"
C14_Witness ==
    /\ last_call = "edf_segmentor.generate_segment_name"
    /\ calls = 2
    /\ candidate = Some("Baseline")
    /\ used_names = {"Baseline", "Baseline_1"}
    /\ allocated_name = Some("Baseline_1")

---------------------------------------------------------------------------
(* Recordings with an event one sample beyond the last sample: crop() rejects a
   window that begins or ends there *)

\* the sample index after the last sample of the recording: an annotation that
\* begins there, one sample after the end, is the latest one mne keeps
OutOfBoundsSample == NTimes

\* three labelled events, each at 25 s, at 30 s or one sample beyond the end, and
\* a stimFlash annotation, which takes the code 1
OutOfBoundsFiles ==
    [annotations :
        {Append([k \in 1..3 |-> <<samples[k], labels[k]>>], <<NTimes - 1, STIM_FLASH>>) :
            samples \in [1..3 -> SampleChoices \cup {OutOfBoundsSample}],
            labels \in [1..3 -> {FOTOSTIM, VSTROENNYJ}]},
     sfreq : SfreqChoices,
     defect : {"none"}]

OutOfBoundsInit ==
    /\ has_segmentor = FALSE
    /\ raw = None
    /\ events = None
    /\ event_id = None
    /\ seg_dict = <<>>
    /\ MIN_SEGMENT_DURATION = DefaultMinSegmentDuration
    /\ outcome = "init"
    /\ runs = 0
    /\ stored = 0
    /\ edf_file \in OutOfBoundsFiles
    /\ NamesIdle
    /\ OthersIdle

OutOfBoundsSpec == OutOfBoundsInit /\ [][Next]_vars

\* the window lies inside the recording
InsideRecording(w) ==
    /\ 0 <= w.start_time
    /\ w.start_time <= w.end_time
    /\ w.end_time <= ((Value(raw).n_times - 1) * MillisPerSecond) \div Value(raw).sfreq

(* C15: a failing crop is local. process() on a loaded recording with events does
   not raise, and every window between consecutive grouped events that lies
   inside the recording and lasts at least MIN_SEGMENT_DURATION is stored, whatever
   happened to the windows before it. *)
C15_CropFailureLocal ==
    [][(ProcessStep /\ raw # None /\ events # None)
        => /\ Returned(outcome')
           /\ LET retained == RetainedWindows(GroupedTimeline, MIN_SEGMENT_DURATION')
              IN  \A k \in 1..Len(retained) :
                     InsideRecording(retained[k])
                        => \E j \in 1..Len(Added) : WindowOf(Added[j]) = retained[k]]_vars

---------------------------------------------------------------------------
\* the filtered events of the loaded recording, as process() builds them
LoadedFilteredEvents == FilteredEvents(Value(events), Value(event_id))

\* the k-th filtered event is a parameter event right after an onset event
Absorbed(k) ==
    /\ k > 1
    /\ k <= Len(LoadedFilteredEvents)
    /\ IsStimulationOnset[LoadedFilteredEvents[k - 1][3]]
    /\ IsStimulationParameter[LoadedFilteredEvents[k][3]]

\* the filtered events with every onset-parameter pair replaced by one event at the
\* onset's time with the parameter's code and label, all else in place
CollapsedEvents ==
    LET f == LoadedFilteredEvents
        kept == SelectSeq([k \in 1..Len(f) |-> k], LAMBDA k : ~Absorbed(k))
    IN  [n \in 1..Len(kept) |->
            IF Absorbed(kept[n] + 1)
            THEN <<f[kept[n]][1], f[kept[n] + 1][2], f[kept[n] + 1][3]>>
            ELSE f[kept[n]]]

CollapsedTimeline ==
    [k \in 1..Len(CollapsedEvents) |->
        <<TimeOf(CollapsedEvents[k][1], Value(raw)),
          SimplifiedName[CollapsedEvents[k][3]]>>]

(* C16: grouped-stimulation collapse. A process() run that segments works on the
   filtered events with every onset event that is directly followed by a parameter
   event merged with it into one event (time of the onset, code and label of the
   parameter event), all other events unchanged and in their order: the segments
   it stores are the windows of that list. *)
C16_GroupedCollapse ==
    [][(ProcessStep /\ outcome' = "segmented")
        => /\ GroupedEvents(LoadedFilteredEvents) = CollapsedEvents
           /\ Len(Added) >= 1
           /\ [k \in 1..(Len(Added) - 1) |-> WindowOf(Added[k])]
                 = RetainedWindows(CollapsedTimeline, MIN_SEGMENT_DURATION')
           /\ Added[Len(Added)].start_time
                 = CollapsedTimeline[Len(CollapsedTimeline)][1]
           /\ Added[Len(Added)].current_event
                 = CollapsedTimeline[Len(CollapsedTimeline)][2]]_vars

\* an onset at 25 s directly followed by a parameter event at 30 s: the only segment
\* starts at 25 s and carries the parameter label
C16_Witness ==
    /\ runs = 1
    /\ outcome = "segmented"
    /\ Len(LoadedFilteredEvents) = 2
    /\ LoadedFilteredEvents[1][1] = 2500
    /\ LoadedFilteredEvents[1][3] = FOTOSTIM
    /\ LoadedFilteredEvents[2][1] = NTimes - 1
    /\ LoadedFilteredEvents[2][3] = VSTROENNYJ
    /\ Len(seg_dict) = 1
    /\ seg_dict[1].start_time = 25 * MillisPerSecond
    /\ seg_dict[1].current_event = SimplifiedName[VSTROENNYJ]
    /\ seg_dict[1].next_event = "End"

---------------------------------------------------------------------------
(* C17: discovery order. Iterating seg_dict after a process() run yields the
   segments of earlier runs first and then the segments of this run in the order
   of their creation, one per retained window; for a chronological event list this
   run's segments come with ascending start_time. *)
C17_DiscoveryOrder ==
    [][(ProcessStep /\ Returned(outcome'))
        => /\ Len(seg_dict') = Len(seg_dict) + stored'
           /\ SubSeq(seg_dict', 1, Len(seg_dict)) = seg_dict
           /\ (outcome' = "segmented" =>
                 [k \in 1..(Len(Added) - 1) |-> WindowOf(Added[k])]
                    = RetainedWindows(GroupedTimeline, MIN_SEGMENT_DURATION'))
           /\ (Chronological(Value(events)) =>
                 \A i, j \in 1..Len(Added) :
                    i < j => Added[i].start_time <= Added[j].start_time)]_vars

\* a chronological recording gave a segment from 25 s and then one from 30 s
C17_Witness ==
    /\ runs = 1
    /\ outcome = "segmented"
    /\ Chronological(Value(events))
    /\ Len(seg_dict) = 2
    /\ seg_dict[1].start_time = 25 * MillisPerSecond
    /\ seg_dict[2].start_time = 30 * MillisPerSecond

---------------------------------------------------------------------------
\* the step is a call of _clean_event_name
CleanStep ==
    /\ calls' = calls + 1
    /\ last_call' = "event_processor._clean_event_name"

\* the text of s from its first to its last character that is not whitespace
StrippedText(s) ==
    LET inner == {i \in 1..Len(s) : SubSeq(s, i, i) \notin Whitespace}
    IN  IF inner = {} THEN ""
        ELSE SubSeq(s, CHOOSE i \in inner : \A h \in inner : i <= h,
                       CHOOSE i \in inner : \A h \in inner : i >= h)

\* the bracketed groups of s: <<a, b>> with an opening bracket at a and, at b, the
\* first closing bracket of its kind after a, no line feed between the two
BracketGroups(s) ==
    {g \in (1..Len(s)) \X (1..Len(s)) :
        /\ g[1] < g[2]
        /\ \/ SubSeq(s, g[1], g[1]) = "[" /\ SubSeq(s, g[2], g[2]) = "]"
           \/ SubSeq(s, g[1], g[1]) = "(" /\ SubSeq(s, g[2], g[2]) = ")"
        /\ \A h \in (g[1] + 1)..(g[2] - 1) :
              SubSeq(s, h, h) \notin {SubSeq(s, g[2], g[2]), "\n"}}

\* the groups that are taken out: a group is taken out unless it opens inside a
\* group that is taken out
RemovedGroups(s) ==
    CHOOSE G \in SUBSET BracketGroups(s) :
        \A g \in BracketGroups(s) :
            g \in G <=> ~\E h \in G : h[1] < g[1] /\ g[1] <= h[2]

\* the text of s from position i on that lies outside the groups G
RECURSIVE TextOutside(_, _, _)
TextOutside(s, G, i) ==
    LET later == {g \in G : g[1] >= i}
        next == CHOOSE g \in later : \A h \in later : g[1] <= h[1]
    IN  IF later = {} THEN SubSeq(s, i, Len(s))
        ELSE SubSeq(s, i, next[1] - 1) \o TextOutside(s, G, next[2] + 1)

\* the bracket-stripped label of each raw label: the label without the groups
\* taken out and without the whitespace at its ends
BracketStrippedLabel ==
    [label \in RawLabels |->
        StrippedText(TextOutside(label, RemovedGroups(label), 1))]

\* the raw label is excluded: bracket-stripped or as it is, it belongs to
\* EXCLUDED_NAMES
ExcludedLabel ==
    \/ BracketStrippedLabel[raw_label] \in EXCLUDED_NAMES
    \/ raw_label \in EXCLUDED_NAMES

(* C18: normaliser exclusion. _clean_event_name returns None exactly when the
   bracket-stripped label, or the raw label as it is, belongs to EXCLUDED_NAMES;
   any other label gets a text, also one that is empty once stripped and one
   that holds a phrase of TRANSLATIONS. *)
C18_NormaliserExclusion ==
    [][CleanStep => (cleaned_label' = None <=> ExcludedLabel)]_vars

\* an excluded label that carries a bracketed part was cleaned to None
C18_Witness ==
    /\ last_call = "event_processor._clean_event_name"
    /\ raw_label = "Artefakt [1]"
    /\ cleaned_label = None

\* s has at i..(j - 1) a number and after it, with whitespace or nothing in
\* between, the unit of frequency
NumberWithUnit(s, i, j) ==
    /\ \A h \in i..(j - 1) : SubSeq(s, h, h) \in Digits
    /\ \E m \in j..Len(s) :
          /\ \A h \in j..(m - 1) : SubSeq(s, h, h) \in Whitespace
          /\ StartsWithAt(s, m, "Gc")

\* the frequencies of s: <<i, j>> with a number with unit at i..(j - 1)
FrequenciesIn(s) ==
    {f \in (1..Len(s)) \X (1..(Len(s) + 1)) :
        f[1] < f[2] /\ NumberWithUnit(s, f[1], f[2])}

\* the tone frequencies of s: <<p, f>> with the word "Ton" at p and, after it
\* with whitespace or nothing in between, the frequency f
TonesIn(s) ==
    {t \in (1..Len(s)) \X FrequenciesIn(s) :
        /\ StartsWithAt(s, t[1], "Ton")
        /\ t[2][1] >= t[1] + 3
        /\ \A h \in (t[1] + 3)..(t[2][1] - 1) : SubSeq(s, h, h) \in Whitespace}

\* what the frequency rule appends for the label s: the number of the leftmost
\* tone frequency if s has one, else the number of its leftmost frequency, then
\* "Hz"; nothing when s has no frequency
FrequencySuffixOf(s) ==
    LET tone == CHOOSE t \in TonesIn(s) : \A u \in TonesIn(s) : t[1] <= u[1]
        freq == CHOOSE f \in FrequenciesIn(s) : \A u \in FrequenciesIn(s) : f[1] <= u[1]
    IN  IF TonesIn(s) # {} THEN SubSeq(s, tone[2][1], tone[2][2] - 1) \o "Hz"
        ELSE IF FrequenciesIn(s) # {} THEN SubSeq(s, freq[1], freq[2] - 1) \o "Hz"
        ELSE ""

\* the same for each raw label
FrequencySuffix == [label \in RawLabels |-> FrequencySuffixOf(label)]

\* the photic and auditory stimulation tags of TRANSLATIONS
StimulationTags == {"PhoticStim", "PostPhotic", "Photic", "Auditory"}

\* the entries of TRANSLATIONS whose phrase is contained in the bracket-stripped
\* label
MatchingEntries ==
    {k \in 1..Len(TRANSLATIONS) :
        \E i \in 1..Len(BracketStrippedLabel[raw_label]) :
            StartsWithAt(BracketStrippedLabel[raw_label], i, TRANSLATIONS[k][1])}

\* the first of them in table order
FirstMatchingEntry == CHOOSE k \in MatchingEntries : \A h \in MatchingEntries : k <= h

\* the label is translated: it is not excluded, not empty once stripped, and
\* contains a phrase of TRANSLATIONS
Translated ==
    /\ ~ExcludedLabel
    /\ BracketStrippedLabel[raw_label] # ""
    /\ MatchingEntries # {}

(* C19: frequency suffix. For a label translated to a photic or auditory
   stimulation tag, _clean_event_name returns the tag followed by the frequency
   taken from the raw label and "Hz": the tone frequency when the raw label has
   one, else its generic frequency, and the bare tag when the raw label has no
   frequency. *)
C19_FrequencySuffix ==
    [][(/\ CleanStep
        /\ Translated
        /\ TRANSLATIONS[FirstMatchingEntry][2] \in StimulationTags)
        => cleaned_label' = Some(TRANSLATIONS[FirstMatchingEntry][2]
                                     \o FrequencySuffix[raw_label])]_vars

\* a label with a frequency before its tone got the frequency of the tone
C19_Witness ==
    /\ last_call = "event_processor._clean_event_name"
    /\ raw_label = "Vstroennyj sluhovoj stimulyator 1 Gc, Ton 1000 Gc"
    /\ cleaned_label = Some("Auditory1000Hz")

(* C20 as the specification states it: for a label that is not excluded and not
   empty once stripped, _clean_event_name returns the tag of the first entry of
   TRANSLATIONS, in table order, whose phrase the stripped label contains, and the
   stripped label itself when it contains no phrase. *)
C20_ReturnsTheTag ==
    [][(CleanStep /\ ~ExcludedLabel /\ BracketStrippedLabel[raw_label] # "")
        => cleaned_label'
             = Some(IF MatchingEntries = {} THEN BracketStrippedLabel[raw_label]
                    ELSE TRANSLATIONS[FirstMatchingEntry][2])]_vars

(* C20: translation precedence. For a label that is not excluded and not empty
   once stripped, _clean_event_name returns the tag of the first entry of
   TRANSLATIONS, in table order, whose phrase the stripped label contains,
   followed for a photic or auditory stimulation tag by the frequency suffix of
   the raw label, and the stripped label itself when it contains no phrase. *)
C20_TranslationPrecedence ==
    [][(CleanStep /\ ~ExcludedLabel /\ BracketStrippedLabel[raw_label] # "")
        => cleaned_label'
             = Some(IF MatchingEntries = {} THEN BracketStrippedLabel[raw_label]
                    ELSE IF TRANSLATIONS[FirstMatchingEntry][2] \in StimulationTags
                    THEN TRANSLATIONS[FirstMatchingEntry][2] \o FrequencySuffix[raw_label]
                    ELSE TRANSLATIONS[FirstMatchingEntry][2])]_vars

\* a label that contains the phrases of two entries got the tag of the one that
\* comes first in the table, although its phrase comes second in the label
C20_Witness ==
    /\ last_call = "event_processor._clean_event_name"
    /\ raw_label = "Otkryvanie glaz, Fonovaya zapis"
    /\ Cardinality(MatchingEntries) = 2
    /\ cleaned_label = Some("Baseline")

---------------------------------------------------------------------------
(* EventProcessor.get_event_name of core/event_processor.py and
   EDFMetadata.get_event_info of core/edf_metadata.py *)

\* _clean_event_name of each event name, computed once
CleanedName == [name \in EventNames |-> clean_event_name(name)]

\* event_processor.EventProcessor.get_event_name: the same lookup as the one of
\* edf_segmentor.py, then _clean_event_name
event_processor_get_event_name(evt_code, ev_id) ==
    CleanedName[get_event_name(evt_code, ev_id)]

\* get_event_info, lines 75-86: the for loop, k counted from 1
RECURSIVE get_event_info_loop(_, _, _)
get_event_info_loop(md, k, rows) ==
    IF k > Len(Value(md.events)) THEN rows
    ELSE LET event == Value(md.events)[k]
             evt_name == event_processor_get_event_name(event[3], Value(md.event_id))
         IN  IF evt_name = None
             THEN get_event_info_loop(md, k + 1, rows)
             ELSE get_event_info_loop(md, k + 1,
                      Append(rows, [time |-> TimeOf(event[1], Value(md.raw)),
                                    event_id |-> event[3],
                                    description |-> Value(evt_name)]))

get_event_info(md) ==
    IF md.events = None THEN <<>> ELSE get_event_info_loop(md, 1, <<>>)

\* code tables as a caller may hand them over: empty, without the codes of some
\* events, and with two names on one code
CodeTables == {
    <<>>,
    << <<STIM_FLASH, 1>>, <<ARTEFAKT, 2>> >>,
    << <<ARTEFAKT, 2>>, <<VSTROENNYJ, 2>> >>,
    << <<VSTROENNYJ, 2>>, <<ARTEFAKT, 2>>, <<FOTOSTIM, 3>> >> }

\* the codes of the events handed over with them
EventCodes == 1..3

EventRows == {<<sample, 0, code>> : sample \in SampleChoices, code \in EventCodes}

\* event arrays in sample order, as mne builds them
EventLists ==
    {evs \in UNION {[1..n -> EventRows] : n \in 0..(MaxEvents - 1)} :
        \A i, j \in 1..Len(evs) : i < j => evs[i][1] <= evs[j][1]}

\* the recordings considered: nothing loaded, or 30 s at 100 Hz with such events
Recordings ==
    {[raw |-> None, events |-> None, event_id |-> None]}
    \cup {[raw |-> Some([sfreq |-> 100, n_times |-> NTimes]),
           events |-> Some(evs), event_id |-> Some(ev_id)] :
            evs \in EventLists, ev_id \in CodeTables}

\* an EDFMetadata object and an EDFSegmentor that hold the same recording
TimelineInit ==
    /\ metadata \in Recordings
    /\ event_data = None
    /\ metadata_loads = 0
    /\ has_segmentor = TRUE
    /\ raw = metadata.raw
    /\ events = metadata.events
    /\ event_id = metadata.event_id
    /\ seg_dict = <<>>
    /\ MIN_SEGMENT_DURATION = DefaultMinSegmentDuration
    /\ outcome = IF metadata.raw = None THEN "load_failed" ELSE "loaded"
    /\ runs = 0
    /\ stored = 0
    /\ edf_file = [annotations |-> <<>>, sfreq |-> 100, defect |-> "none"]
    /\ NamesIdle
    /\ StoreIdle
    /\ BatchIdle
    /\ RenameIdle

\* metadata.get_event_info(EventProcessor)
GetEventInfo ==
    /\ event_data' = Some(get_event_info(metadata))
    /\ UNCHANGED <<metadata, metadata_loads>>
    /\ UNCHANGED <<engine_vars, names_vars, store_vars, batch_vars, rename_vars>>

\* the files handed to load_metadata: a recording with an excluded label, a
\* stimulation label and stimFlash, a file mne cannot read, a file whose
\* annotations mne cannot convert
MetadataFiles == {
    [annotations |-> << <<2500, ARTEFAKT>>, <<2500, VSTROENNYJ>>, <<NTimes - 1, STIM_FLASH>> >>,
     sfreq |-> 100, defect |-> "none"],
    [annotations |-> <<>>, sfreq |-> 100, defect |-> "read_raw_edf"],
    [annotations |-> << <<2500, VSTROENNYJ>> >>, sfreq |-> 100,
     defect |-> "events_from_annotations"] }

\* EDFMetadata.load_metadata, lines 20-28: [raw, events, event_id] of the object
\* after the call on the file; a call that raises at the file's defect leaves
\* what it had assigned before and, for the rest, what the object held
edf_metadata_load_metadata(md, file) ==
    [raw |-> IF file.defect = "read_raw_edf" THEN md.raw
             ELSE Some([sfreq |-> file.sfreq, n_times |-> NTimes]),
     events |-> IF file.defect # "none" THEN md.events
                ELSE Some(EventsOf(file.annotations)),
     event_id |-> IF file.defect # "none" THEN md.event_id
                  ELSE Some(EventIdOf(file.annotations))]

\* metadata.load_metadata(file_path)
LoadMetadata ==
    \E file \in MetadataFiles :
        /\ metadata_loads < MaxLoads
        /\ metadata' = edf_metadata_load_metadata(metadata, file)
        /\ metadata_loads' = metadata_loads + 1
        /\ event_data' = None
        /\ UNCHANGED <<engine_vars, names_vars, store_vars, batch_vars, rename_vars>>

TimelineNext == GetEventInfo \/ LoadMetadata \/ Next

TimelineSpec == TimelineInit /\ [][TimelineNext]_vars

\* the step is a call of get_event_info on a loaded recording
GetEventInfoStep == event_data = None /\ event_data' # None /\ metadata.events # None

\* no name of the table is mapped to the code
UnknownCode(code, table) == \A k \in 1..Len(table) : table[k][2] # code

\* the first name of the table, in its order, mapped to the code
FirstLabel(code, table) ==
    table[CHOOSE k \in 1..Len(table) :
             table[k][2] = code /\ \A h \in 1..(k - 1) : table[h][2] # code][1]

ExpectedLabel(code, table) ==
    IF UnknownCode(code, table) THEN "Unknown" ELSE FirstLabel(code, table)

(* C21: unknown codes. An event whose code has no entry in the code table gets
   the label "Unknown" and is not dropped: get_event_info lists every such event,
   in order, with the description "Unknown"; process() keeps every such event,
   in order, under the name "Unknown" among the events it segments, and gives
   every event it keeps the first name of the table mapped to its code; the
   trailing segment of a run whose last event has no table entry starts at that
   event and carries the name "Unknown". *)
C21_UnknownNotDropped ==
    [][/\ GetEventInfoStep
          => LET table == Value(metadata.event_id)
                 unknown == SelectSeq(Value(metadata.events),
                                      LAMBDA event : UnknownCode(event[3], table))
             IN  SelectSeq(Value(event_data'),
                           LAMBDA row : UnknownCode(row.event_id, table))
                   = [k \in 1..Len(unknown) |->
                        [time |-> (unknown[k][1] * MillisPerSecond) \div 100,
                         event_id |-> unknown[k][3],
                         description |-> "Unknown"]]
       /\ (ProcessStep /\ Returned(outcome') /\ events # None)
          => LET table == Value(event_id)
                 unknown == SelectSeq(Value(events),
                                      LAMBDA event : UnknownCode(event[3], table))
                 last_event == Value(events)[Len(Value(events))]
             IN  /\ SelectSeq(LoadedFilteredEvents,
                              LAMBDA event : UnknownCode(event[2], table))
                      = [k \in 1..Len(unknown) |->
                           <<unknown[k][1], unknown[k][3], "Unknown">>]
                 /\ \A k \in 1..Len(LoadedFilteredEvents) :
                       LoadedFilteredEvents[k][3]
                          = ExpectedLabel(LoadedFilteredEvents[k][2], table)
                 /\ (outcome' = "segmented" /\ UnknownCode(last_event[3], table))
                    => /\ Added[Len(Added)].current_event = "Unknown"
                       /\ Added[Len(Added)].start_time
                            = (last_event[1] * MillisPerSecond) \div 100]_vars

---------------------------------------------------------------------------
\* the events whose label, looked up in the table, is not excluded, as
\* <<time, code>> and in the order of the event list
ExpectedTimeline(evs, table) ==
    LET kept == SelectSeq(evs,
                    LAMBDA event : ~IsExcludedName[ExpectedLabel(event[3], table)])
    IN  [k \in 1..Len(kept) |->
            <<(kept[k][1] * MillisPerSecond) \div 100, kept[k][3]>>]

\* the list get_event_info returned is the stable filter of the events
EventInfoIsStableFilter ==
    GetEventInfoStep
       => [k \in 1..Len(Value(event_data')) |->
              <<Value(event_data')[k].time, Value(event_data')[k].event_id>>]
            = ExpectedTimeline(Value(metadata.events), Value(metadata.event_id))

\* the list process() extracted (filtered_events) is the stable filter of the events
ProcessListIsStableFilter ==
    (ProcessStep /\ Returned(outcome') /\ events # None /\ Len(Value(events)) >= 2)
       => [k \in 1..Len(LoadedFilteredEvents) |->
              <<TimeOf(LoadedFilteredEvents[k][1], Value(raw)),
                LoadedFilteredEvents[k][2]>>]
            = ExpectedTimeline(Value(events), Value(event_id))

(* C22: timeline extraction is a stable filter. The event list extracted from the
   events of a recording, by get_event_info and by process(), holds exactly the
   events whose label is not excluded, each once, in the order of the input, with
   time = sample index / sampling rate. *)
C22_StableFilter ==
    [][EventInfoIsStableFilter /\ ProcessListIsStableFilter]_vars

---------------------------------------------------------------------------
(* C23: the source is read-only during segmentation. A process() call, however it
   ends, leaves the loaded recording, the event list and the code table as they
   were; every payload it stores is the window of its segment, cropped from a
   copy of the recording, and the entries the map held before stay as they were. *)
C23_SourceReadOnly ==
    [][ProcessStep
        => /\ raw' = raw
           /\ events' = events
           /\ event_id' = event_id
           /\ SubSeq(seg_dict', 1, Len(seg_dict)) = seg_dict
           /\ \A k \in 1..Len(Added) :
                 Added[k].data = [tmin |-> Added[k].start_time,
                                  tmax |-> Added[k].end_time]]_vars

\* a second run on the same recording stored two payloads again, cropped from the
\* recording as it was loaded
C23_Witness ==
    /\ runs = 2
    /\ outcome = "segmented"
    /\ stored = 2
    /\ raw = Some([sfreq |-> 100, n_times |-> NTimes])
    /\ events = Some(EventsOf(edf_file.annotations))
    /\ Len(seg_dict) = 4
    /\ seg_dict[3].data = [tmin |-> 25 * MillisPerSecond, tmax |-> 30 * MillisPerSecond]
    /\ seg_dict[4].data = [tmin |-> 30 * MillisPerSecond, tmax |-> 30 * MillisPerSecond]

---------------------------------------------------------------------------
(* The application with the entry text "nan" among the entries *)

ApplyMinDurationWithNaN == ApplyMinDurationFrom(EntryChoicesWithNaN)

SplitIntoSegmentsWithNaN == SplitIntoSegmentsFrom(EntryChoicesWithNaN)

EntryNext == LoadEdfFile \/ ApplyMinDurationWithNaN \/ SplitIntoSegmentsWithNaN

EntrySpec == ScenarioAInit /\ [][EntryNext]_vars

(* C25: the setting is strictly positive. In every reachable state
   settings.MIN_SEGMENT_DURATION is a number greater than 0: apply_min_duration and
   split_into_segments write it only for an entry that is a positive number, and
   process() is never called under another setting. *)
C25_PositiveSetting ==
    ~IsNaN(MIN_SEGMENT_DURATION) /\ MIN_SEGMENT_DURATION > 0

---------------------------------------------------------------------------
(* C26: a failed load leaves a consistent engine. After load_metadata has raised,
   raw, events and event_id of the engine are all unset, or are all those of one
   and the same file. *)
C26_ConsistentAfterFailedLoad ==
    outcome = "load_failed"
       => \/ raw = None /\ events = None /\ event_id = None
          \/ /\ raw = Some([sfreq |-> edf_file.sfreq, n_times |-> NTimes])
             /\ events = Some(EventsOf(edf_file.annotations))
             /\ event_id = Some(EventIdOf(edf_file.annotations))

---------------------------------------------------------------------------
(* DBManager of core/db_manager.py: the tables patients, edf_files, segments as
   sequences of rows in rowid order, the AUTOINCREMENT counters of the three
   tables, and the segment files as a set of <<path, payload>> with one payload
   per path *)

\* the EDF files on disk that are handed to the database: two with the same
\* content, two with the same file name in different directories, one whose
\* recording has no measurement date
EdfPaths == {"a/rec1.edf", "a/copy1.edf", "b/rec1.edf", "a/rec3.edf"}

\* content of the file at path: its sha256 and what info of its recording holds:
\* the subject's name, sex and birthday, the measurement date, the number of EEG
\* channels and the sampling rate
FileAt(path) ==
    IF path \in {"a/rec1.edf", "a/copy1.edf"}
    THEN [hash |-> "h1", name |-> "Ivanov", sex |-> 1,
          birthday |-> Some([year |-> 1980, month |-> 12, day |-> 5]),
          meas_date |-> Some([year |-> 2020, month |-> 1, day |-> 2,
                              hour |-> 10, minute |-> 30]),
          eeg_ch |-> 19, sfreq |-> 100]
    ELSE IF path = "b/rec1.edf"
    THEN [hash |-> "h2", name |-> "Petrov", sex |-> 0, birthday |-> None,
          meas_date |-> Some([year |-> 2021, month |-> 11, day |-> 23,
                              hour |-> 9, minute |-> 5]),
          eeg_ch |-> 21, sfreq |-> 100]
    ELSE [hash |-> "h3", name |-> "Ivanov", sex |-> 2, birthday |-> None,
          meas_date |-> None, eeg_ch |-> 19, sfreq |-> 100]

\* _calculate_file_hash: the digest of the file's bytes
calculate_file_hash(file_path) == FileAt(file_path).hash

\* the last position of ch in s, 0 when there is none
LastIndexOf(ch, s) ==
    LET at == {i \in 1..Len(s) : SubSeq(s, i, i) = ch}
    IN  IF at = {} THEN 0 ELSE CHOOSE i \in at : \A j \in at : j <= i

\* os.path.splitext(os.path.basename(edf_file_path))[0]: the extension starts at
\* the last dot of the base name, unless only dots stand before that dot
BaseNameWithoutExt(file_path) ==
    LET base == SubSeq(file_path, LastIndexOf("/", file_path) + 1, Len(file_path))
        dot == LastIndexOf(".", base)
    IN  IF dot = 0 \/ \A i \in 1..(dot - 1) : SubSeq(base, i, i) = "."
        THEN base
        ELSE SubSeq(base, 1, dot - 1)

\* the characters of the names considered for which str.isalnum() is True
AlnumChars == LowerLetters \o UpperLetters \o OtherLetters \o NumericChars

\* line 341: "".join(c if c.isalnum() else "_" for c in seg_name)
RECURSIVE clean_seg_name(_)
clean_seg_name(seg_name) ==
    IF seg_name = "" THEN ""
    ELSE (IF Contains(SubSeq(seg_name, 1, 1), AlnumChars)
          THEN SubSeq(seg_name, 1, 1) ELSE "_")
         \o clean_seg_name(SubSeq(seg_name, 2, Len(seg_name)))

\* lines 342-343: the path of the segment file
seg_fpath_of(seg_name, edf_file_path) ==
    "DB/segments/" \o BaseNameWithoutExt(edf_file_path)
        \o "/seg_" \o clean_seg_name(seg_name) \o "_eeg.fif"

\* %d, %m, %H, %M with zero padding
Pad2(n) == IF n < 10 THEN "0" \o ToString(n) ELSE ToString(n)

\* date.strftime('%d.%m.%Y'), for a year of four digits
strftime_date(date) ==
    Pad2(date.day) \o "." \o Pad2(date.month) \o "." \o ToString(date.year)

\* start_date.strftime('%d.%m.%Y %H:%M')
strftime_date_time(date) ==
    strftime_date(date) \o " " \o Pad2(date.hour) \o ":" \o Pad2(date.minute)

\* the texts that a directive of strptime takes for a number of low..high: the
\* number itself or, below 10, the number after a zero
NumberTokens(low, high) ==
    {ToString(n) : n \in low..high} \cup {"0" \o ToString(n) : n \in low..9}

\* the number a token stands for
TokenValue(token) ==
    CHOOSE n \in 0..59 : token \in {ToString(n), "0" \o ToString(n), " " \o ToString(n)}

\* the number of four digits
YearValue(text) ==
    LET digit(i) == CHOOSE n \in 0..9 : ToString(n) = SubSeq(text, i, i)
    IN  1000 * digit(1) + 100 * digit(2) + 10 * digit(3) + digit(4)

\* the days of a month of the proleptic Gregorian calendar
DaysInMonth(year, month) ==
    IF month = 2
    THEN (IF year % 4 = 0 /\ (year % 100 # 0 \/ year % 400 = 0) THEN 29 ELSE 28)
    ELSE IF month \in {4, 6, 9, 11} THEN 30 ELSE 31

\* the day, month and year texts are those of a date, as %d, %m, %Y take them
IsDate(day, month, year) ==
    /\ day \in NumberTokens(1, 31) \cup {" " \o ToString(n) : n \in 1..9}
    /\ month \in NumberTokens(1, 12)
    /\ Len(year) = 4
    /\ \A i \in 1..4 : SubSeq(year, i, i) \in Digits
    /\ YearValue(year) >= 1
    /\ TokenValue(day) <= DaysInMonth(YearValue(year), TokenValue(month))

\* the text cut at the first two dots: [day, month, rest]; None without two dots
DateParts(text) ==
    LET first_dot == IndexOf(".", text)
        after == SubSeq(text, first_dot + 1, Len(text))
        second_dot == IndexOf(".", after)
    IN  IF first_dot = 0 \/ second_dot = 0 THEN None
        ELSE Some([day |-> SubSeq(text, 1, first_dot - 1),
                   month |-> SubSeq(after, 1, second_dot - 1),
                   rest |-> SubSeq(after, second_dot + 1, Len(after))])

\* datetime.strptime(text, '%d.%m.%Y') raises ValueError
strptime_date_raises(text) ==
    LET parts == DateParts(text)
    IN  \/ parts = None
        \/ ~IsDate(Value(parts).day, Value(parts).month, Value(parts).rest)

\* datetime.strptime(text, '%d.%m.%Y %H:%M') raises ValueError; the blank of the
\* format is matched as \s+, one or more whitespace characters of any kind
strptime_date_time_raises(text) ==
    LET parts == DateParts(text)
        rest == Value(parts).rest
        time_at == BlanksEnd(rest, 5)
        time == SubSeq(rest, time_at, Len(rest))
        colon == IndexOf(":", time)
    IN  \/ parts = None
        \/ Len(rest) < 5
        \/ ~IsDate(Value(parts).day, Value(parts).month, SubSeq(rest, 1, 4))
        \/ time_at = 5
        \/ colon = 0
        \/ SubSeq(time, 1, colon - 1) \notin NumberTokens(0, 23)
        \/ SubSeq(time, colon + 1, Len(time)) \notin NumberTokens(0, 59)

\* a query that finds no row
get_edf_file_by_hash_none(database, file_hash) == None

\* get_edf_file_by_hash: None when no row has that hash, else EDFFile(*row): the
\* columns of the row, in the order of the table (edf_id, patient_id, start_date,
\* eeg_ch, rate, montage, notes, file_hash), handed to the fields of the
\* dataclass in their order (edf_id, patient_id, file_hash, start_date, eeg_ch,
\* rate, montage, notes)
get_edf_file_by_hash(database, file_hash) ==
    LET found == {k \in 1..Len(database.edf_files) :
                     database.edf_files[k].file_hash = file_hash}
        row == database.edf_files[CHOOSE k \in found : TRUE]
    IN  IF found = {} THEN None
        ELSE Some([edf_id |-> row.edf_id,
                   patient_id |-> row.patient_id,
                   file_hash |-> row.start_date,
                   start_date |-> row.eeg_ch,
                   eeg_ch |-> row.rate,
                   rate |-> row.montage,
                   montage |-> row.notes,
                   notes |-> row.file_hash])

\* the CHECK constraint of patients.gender
Genders == {"M", "F", "N"}

\* add_patient: [db, patient_id, raised]; ValueError for a birthday that is not
\* DD.MM.YYYY, the id of the first patient of that name when there is one, else
\* a new row, which the CHECK constraint of gender may refuse
add_patient(database, name, gender, birthday) ==
    LET found == {k \in 1..Len(database.patients) : database.patients[k].name = name}
        new_id == database.seq.patients + 1
    IN  IF strptime_date_raises(birthday)
        THEN [db |-> database, patient_id |-> 0, raised |-> "ValueError"]
        ELSE IF found # {}
        THEN [db |-> database,
              patient_id |-> database.patients[CHOOSE k \in found :
                                                  \A j \in found : k <= j].patient_id,
              raised |-> "none"]
        ELSE IF gender \notin Genders
        THEN [db |-> database, patient_id |-> 0, raised |-> "IntegrityError"]
        ELSE [db |-> [database EXCEPT
                         !.patients = Append(@, [patient_id |-> new_id, name |-> name,
                                                 gender |-> gender,
                                                 birthday |-> birthday]),
                         !.seq.patients = new_id],
              patient_id |-> new_id,
              raised |-> "none"]

\* add_edf_file: [db, edf_id, raised]; ValueError for a known hash and for a
\* start date that is not DD.MM.YYYY HH:MM, else a new row
add_edf_file(database, patient_id, file_hash, start_date, eeg_ch, rate) ==
    LET new_id == database.seq.edf_files + 1
    IN  IF \E k \in 1..Len(database.edf_files) :
              database.edf_files[k].file_hash = file_hash
        THEN [db |-> database, edf_id |-> 0, raised |-> TRUE]
        ELSE IF strptime_date_time_raises(start_date)
        THEN [db |-> database, edf_id |-> 0, raised |-> TRUE]
        ELSE [db |-> [database EXCEPT
                         !.edf_files = Append(@, [edf_id |-> new_id,
                                                  patient_id |-> patient_id,
                                                  start_date |-> start_date,
                                                  eeg_ch |-> eeg_ch,
                                                  rate |-> rate,
                                                  montage |-> "",
                                                  notes |-> "",
                                                  file_hash |-> file_hash]),
                         !.seq.edf_files = new_id],
              edf_id |-> new_id,
              raised |-> FALSE]

\* seg_data['data'].save(seg_fpath, overwrite=True)
save(files, seg_fpath, payload) ==
    {f \in files : f[1] # seg_fpath} \cup {<<seg_fpath, payload>>}

\* add_segment: [db, seg_id, raised]; ValueError for a known path, else a new row
add_segment(database, patient_id, edf_id, seg_fpath, item) ==
    LET new_id == database.seq.segments + 1
    IN  IF \E k \in 1..Len(database.segments) :
              database.segments[k].seg_fpath = seg_fpath
        THEN [db |-> database, seg_id |-> 0, raised |-> TRUE]
        ELSE [db |-> [database EXCEPT
                         !.segments = Append(@, [seg_id |-> new_id,
                                                 patient_id |-> patient_id,
                                                 edf_id |-> edf_id,
                                                 seg_fpath |-> seg_fpath,
                                                 start_time |-> item.start_time,
                                                 end_time |-> item.end_time,
                                                 l_marker |-> item.current_event,
                                                 r_marker |-> item.next_event]),
                         !.seq.segments = new_id],
              seg_id |-> new_id,
              raised |-> FALSE]

\* lines 340-357: the for loop over seg_dict.items(), k counted from 1; the file is
\* saved first, then the row is added, and a failure of either skips to the next item
RECURSIVE fill_loop(_, _, _, _, _, _)
fill_loop(database, d, k, patient_id, edf_id, edf_file_path) ==
    IF k > Len(d) THEN database
    ELSE LET seg_fpath == seg_fpath_of(d[k].key, edf_file_path)
             saved == [database EXCEPT !.files = save(@, seg_fpath, d[k].data)]
         IN  fill_loop(add_segment(saved, patient_id, edf_id, seg_fpath, d[k]).db,
                       d, k + 1, patient_id, edf_id, edf_file_path)

\* lines 293-299: the gender from subject_info['sex']
gender_of(sex) == IF sex = 1 THEN "M" ELSE IF sex = 2 THEN "F" ELSE "N"

\* lines 300-313: the birthday handed to add_patient, for a birthday that is a
\* date or missing
birthday_of(birthday) ==
    IF birthday = None THEN "01.01.1900" ELSE strftime_date(Value(birthday))

\* fill_segments_from_dict: [db, outcome]; outcome is "stored" or the exception
fill_segments_from_dict(database, d, edf_file_path) ==
    LET file_hash == calculate_file_hash(edf_file_path)
        info == FileAt(edf_file_path)
    IN  IF get_edf_file_by_hash(database, file_hash) # None
        THEN [db |-> database, outcome |-> "ValueError"]
        ELSE IF Len(d) = 0
        THEN [db |-> database, outcome |-> "StopIteration"]
        ELSE LET patient == add_patient(database, info.name, gender_of(info.sex),
                                        birthday_of(info.birthday))
             IN  IF patient.raised # "none"
                 THEN [db |-> patient.db, outcome |-> patient.raised]
                 ELSE IF info.meas_date = None
                 THEN [db |-> patient.db, outcome |-> "AttributeError"]
                 ELSE LET added == add_edf_file(patient.db, patient.patient_id,
                                                file_hash,
                                                strftime_date_time(Value(info.meas_date)),
                                                info.eeg_ch, info.sfreq)
                      IN  IF added.raised
                          THEN [db |-> added.db, outcome |-> "ValueError"]
                          ELSE [db |-> fill_loop(added.db, d, 1, patient.patient_id,
                                                 added.edf_id, edf_file_path),
                                outcome |-> "stored"]

\* a segment as process() stores it
SegItem(key, label, start_s, end_s, next_label) ==
    [key |-> key,
     start_time |-> start_s * MillisPerSecond,
     end_time |-> end_s * MillisPerSecond,
     current_event |-> label,
     next_event |-> next_label,
     data |-> Crop([sfreq |-> 100, n_times |-> NTimes],
                   start_s * MillisPerSecond, end_s * MillisPerSecond)]

\* the segment maps handed over: empty; one segment; the map of a recording with
\* the labels "Son", "Son 1", "Son", in which the allocator made "Son_1"
SegDicts == {
    <<>>,
    << SegItem("Son", "Son", 5, 30, "End") >>,
    << SegItem("Son", "Son", 5, 15, "Son 1"),
       SegItem("Son 1", "Son 1", 15, 25, "Son"),
       SegItem("Son_1", "Son", 25, 30, "End") >> }

\* the statements typed into the SQL editor: none, a query, the three tables
\* emptied, a row for the file with the hash h2, a statement sqlite cannot parse
SqlStatements == {
    "",
    "SELECT * FROM edf_files",
    "DELETE FROM segments",
    "DELETE FROM edf_files",
    "DELETE FROM patients",
    "INSERT INTO edf_files (patient_id, start_date, eeg_ch, rate, file_hash) VALUES (1, '', 0, 0, 'h2')",
    "DELETE segments" }

\* cursor.execute(query) and the commit: the database after the statement; a
\* statement that raises (a syntax error, the UNIQUE constraint of file_hash)
\* changes nothing; DELETE leaves the AUTOINCREMENT counter as it is, and the
\* foreign keys are not enforced
execute_sql(database, query) ==
    IF query = "DELETE FROM segments" THEN [database EXCEPT !.segments = <<>>]
    ELSE IF query = "DELETE FROM edf_files" THEN [database EXCEPT !.edf_files = <<>>]
    ELSE IF query = "DELETE FROM patients" THEN [database EXCEPT !.patients = <<>>]
    ELSE IF /\ StartsWithAt(query, 1, "INSERT INTO edf_files")
            /\ \A k \in 1..Len(database.edf_files) :
                  database.edf_files[k].file_hash # "h2"
    THEN [database EXCEPT
             !.edf_files = Append(@, [edf_id |-> database.seq.edf_files + 1,
                                      patient_id |-> 1,
                                      start_date |-> "",
                                      eeg_ch |-> 0,
                                      rate |-> 0,
                                      montage |-> "",
                                      notes |-> "",
                                      file_hash |-> "h2"]),
             !.seq.edf_files = @ + 1]
    ELSE database

StoreInit ==
    /\ EngineIdle
    /\ NamesIdle
    /\ TimelineIdle
    /\ StoreIdle
    /\ BatchIdle
    /\ RenameIdle

\* db_manager.fill_segments_from_dict(d, path)
FillSegmentsFromDict ==
    \E d \in SegDicts, path \in EdfPaths :
        /\ fills < MaxFills
        /\ LET res == fill_segments_from_dict(db, d, path)
           IN  /\ db' = res.db
               /\ fill_call' = [path |-> path, outcome |-> res.outcome]
        /\ fills' = fills + 1
        /\ UNCHANGED db_calls
        /\ UNCHANGED <<engine_vars, names_vars, timeline_vars, batch_vars, rename_vars>>

\* db_manager.add_patient(name, gender, birthday) called on its own
AddPatient ==
    \E name \in {"Ivanov", "Sidorov"}, gender \in {"F", "X"},
       birthday \in {"05.12.1980", "1980-12-05"} :
        /\ db_calls < MaxDbCalls
        /\ db' = add_patient(db, name, gender, birthday).db
        /\ db_calls' = db_calls + 1
        /\ UNCHANGED <<fill_call, fills>>
        /\ UNCHANGED <<engine_vars, names_vars, timeline_vars, batch_vars, rename_vars>>

\* db_manager.add_edf_file(patient_id, file_hash, start_date, eeg_ch, rate)
\* called on its own, with a start date that has a tab between date and time,
\* which strptime takes, or one in another format
AddEdfFile ==
    \E file_hash \in {"h1", "h4"}, start_date \in {"02.01.2020\t10:30", "2020-01-02 10:30"} :
        /\ db_calls < MaxDbCalls
        /\ db' = add_edf_file(db, 1, file_hash, start_date, 19, 100).db
        /\ db_calls' = db_calls + 1
        /\ UNCHANGED <<fill_call, fills>>
        /\ UNCHANGED <<engine_vars, names_vars, timeline_vars, batch_vars, rename_vars>>

\* db_manager.add_segment(patient_id, edf_id, seg_fpath, ...) called on its own
AddSegment ==
    \E seg_fpath \in {"DB/segments/rec1/seg_Son_eeg.fif", "DB/segments/rec1/seg_x_eeg.fif"} :
        /\ db_calls < MaxDbCalls
        /\ db' = add_segment(db, 1, 1, seg_fpath, SegItem("Son", "Son", 0, 5, "End")).db
        /\ db_calls' = db_calls + 1
        /\ UNCHANGED <<fill_call, fills>>
        /\ UNCHANGED <<engine_vars, names_vars, timeline_vars, batch_vars, rename_vars>>

\* _execute_sql of the SQL editor (EDFApp and DBEditor): a warning for an empty
\* text, else the statement is executed on the connection of the DBManager
ExecuteSql ==
    \E query \in SqlStatements :
        /\ db_calls < MaxDbCalls
        /\ db' = IF query = "" THEN db ELSE execute_sql(db, query)
        /\ db_calls' = db_calls + 1
        /\ UNCHANGED <<fill_call, fills>>
        /\ UNCHANGED <<engine_vars, names_vars, timeline_vars, batch_vars, rename_vars>>

StoreNext == FillSegmentsFromDict \/ AddPatient \/ AddEdfFile \/ AddSegment \/ ExecuteSql

StoreSpec == StoreInit /\ [][StoreNext]_vars

\* the step is a call of fill_segments_from_dict
FillStep == fills' = fills + 1

\* the file of the call is already in edf_files
HashPresent(path) ==
    \E k \in 1..Len(db.edf_files) : db.edf_files[k].file_hash = FileAt(path).hash

(* C27: an EDF file is stored at most once. edf_files never holds two rows with
   the same file hash, and a fill_segments_from_dict call for a file whose hash is
   already there raises ValueError and leaves the three tables and the segment
   files as they were. *)
C27_StoredAtMostOnce ==
    [][FillStep
        => /\ \A i, j \in 1..Len(db'.edf_files) :
                 db'.edf_files[i].file_hash = db'.edf_files[j].file_hash => i = j
           /\ HashPresent(fill_call'.path)
                 => fill_call'.outcome = "ValueError" /\ db' = db]_vars

\* the copy of a stored file was handed over and refused, after the original had
\* been stored with its segments
C27_Witness ==
    /\ fills = 2
    /\ fill_call = [path |-> "a/copy1.edf", outcome |-> "ValueError"]
    /\ Len(db.edf_files) = 1
    /\ db.edf_files[1].file_hash = "h1"
    /\ Len(db.segments) >= 1
    /\ db.files # {}

---------------------------------------------------------------------------
(* C28: stored segments keep their own payload. After a fill_segments_from_dict
   call, every segments row the call inserted refers to a file that holds the
   payload of that same segment, the window from its start_time to its end_time,
   also when two segment names give the same file name. *)
C28_SegmentsKeepPayload ==
    [][FillStep
        => \A k \in (Len(db.segments) + 1)..Len(db'.segments) :
              <<db'.segments[k].seg_fpath,
                [tmin |-> db'.segments[k].start_time,
                 tmax |-> db'.segments[k].end_time]>> \in db'.files]_vars

---------------------------------------------------------------------------
(* EDFApp.batch_process_edf_files *)

\* longest listing of the working directory
MaxBatchFiles == 2

\* load_metadata(file_path) on a segmentor: [raw, events, event_id, raised]; it
\* raises at fail_at and leaves what it had assigned
load_metadata(file, fail_at) ==
    [raw |-> IF fail_at = "read_raw_edf" THEN None
             ELSE Some([sfreq |-> file.sfreq, n_times |-> NTimes]),
     events |-> IF fail_at \in {"read_raw_edf", "events_from_annotations"}
                THEN None ELSE Some(EventsOf(file.annotations)),
     event_id |-> IF fail_at \in {"read_raw_edf", "events_from_annotations"}
                  THEN None ELSE Some(EventIdOf(file.annotations)),
     raised |-> fail_at # "none"]

\* a segmentor that takes over the map of the one before it
EDFSegmentor_seg_dict_kept(previous) ==
    IF previous = None THEN <<>> ELSE Value(previous)

\* EDFSegmentor.__init__: self.seg_dict = {}, whatever the segmentor before held
EDFSegmentor_seg_dict(previous) == <<>>

\* lines 143-145 for one entry of edf_files: a new segmentor, load_metadata,
\* process(): [start_map, seg_dict, outcome]
BatchSegmentFile(file, previous, fail_at, min_duration) ==
    LET start_map == EDFSegmentor_seg_dict(previous)
        loaded == load_metadata(file, fail_at)
        res == Process(loaded.raw, loaded.events, loaded.event_id, start_map,
                       min_duration)
    IN  IF loaded.raised
        THEN [start_map |-> start_map, seg_dict |-> start_map, outcome |-> "load_failed"]
        ELSE [start_map |-> start_map, seg_dict |-> res.seg_dict,
              outcome |-> IF ~Returned(res.outcome) THEN "process_failed"
                          ELSE IF Len(res.seg_dict) = 0 THEN "no_segments"
                          ELSE "segmented"]

\* lines 146-161 for a segmentor whose map is d: [db, outcome, filled, processed,
\* segments]; the counters move only when fill_segments_from_dict returned
BatchStoreFile(database, file_path, d) ==
    LET fill == fill_segments_from_dict(database, d, file_path)
    IN  [db |-> fill.db,
         outcome |-> IF fill.outcome = "stored" THEN "stored"
                     ELSE IF fill.outcome = "ValueError" THEN "insertion_error"
                     ELSE "fill_failed",
         fill_outcome |-> fill.outcome,
         filled |-> TRUE,
         processed |-> IF fill.outcome = "stored" THEN 1 ELSE 0,
         segments |-> IF fill.outcome = "stored" THEN Len(d) ELSE 0]

\* the body of the for loop for one entry of edf_files; segmented is what
\* BatchSegmentFile gave
BatchOneFile(database, file_path, segmented) ==
    IF segmented.outcome = "segmented"
    THEN BatchStoreFile(database, file_path, segmented.seg_dict)
    ELSE [db |-> database, outcome |-> segmented.outcome, fill_outcome |-> "none",
          filled |-> FALSE, processed |-> 0, segments |-> 0]

\* the recordings found in the directory: one with three windows of the same
\* label, one with a single event, one mne cannot read, one whose last event lies
\* past the end of the data; the stimFlash annotation takes the code 1
BatchEdfs == {
    [annotations |-> << <<0, VSTROENNYJ>>, <<500, VSTROENNYJ>>, <<2500, VSTROENNYJ>>,
                        <<NTimes - 1, STIM_FLASH>> >>,
     sfreq |-> 100, defect |-> "none"],
    [annotations |-> << <<2500, ARTEFAKT>> >>, sfreq |-> 100, defect |-> "none"],
    [annotations |-> <<>>, sfreq |-> 100, defect |-> "read_raw_edf"],
    [annotations |-> << <<0, VSTROENNYJ>>, <<2500, VSTROENNYJ>>,
                        <<NTimes - 1, STIM_FLASH>>, <<OutOfBoundsSample, VSTROENNYJ>> >>,
     sfreq |-> 100, defect |-> "none"] }

\* the files of the working directory "a"
BatchPaths == {path \in EdfPaths : SubSeq(path, 1, 2) = "a/"}

\* os.listdir in any order: some of the files, the same bytes giving the same
\* recording
DirectoryListings ==
    {[k \in 1..Len(paths) |->
         [path |-> paths[k], edf |-> contents[calculate_file_hash(paths[k])]]] :
        paths \in {q \in UNION {[1..n -> BatchPaths] : n \in 0..MaxBatchFiles} :
                      \A i, j \in 1..Len(q) : i # j => q[i] # q[j]},
        contents \in [{calculate_file_hash(path) : path \in BatchPaths} -> BatchEdfs]}

BatchInit ==
    /\ EngineIdle
    /\ NamesIdle
    /\ OthersIdle

\* lines 124-137: the guards, the listing, the counters
BatchStart ==
    /\ batch_state = "idle"
    /\ \E has_directory \in BOOLEAN, has_db_manager \in BOOLEAN,
          listing \in DirectoryListings :
          IF ~has_directory \/ ~has_db_manager \/ Len(listing) = 0
          THEN /\ batch_state' = "returned"
               /\ UNCHANGED <<batch_files, batch_pos, segmentor_seg_dict, attempted,
                              processed_files, total_segments>>
          ELSE /\ batch_state' = "running"
               /\ batch_files' = listing
               /\ batch_pos' = 1
               /\ total_segments' = 0
               /\ processed_files' = 0
               /\ UNCHANGED <<segmentor_seg_dict, attempted>>
    /\ UNCHANGED <<engine_vars, names_vars, timeline_vars, store_vars, rename_vars>>

\* lines 138-165: one pass of the for loop, whose handlers catch what the body raises
BatchIteration ==
    /\ batch_state = "running"
    /\ batch_pos <= Len(batch_files)
    /\ \E fail_at \in LoadSteps :
          /\ IF batch_files[batch_pos].edf.defect = "none"
             THEN fail_at \in {"format_output", "none"}
             ELSE fail_at = batch_files[batch_pos].edf.defect
          /\ \E segmented \in {BatchSegmentFile(batch_files[batch_pos].edf,
                                                segmentor_seg_dict, fail_at,
                                                MIN_SEGMENT_DURATION)} :
             \E res \in {BatchOneFile(db, batch_files[batch_pos].path, segmented)} :
                 /\ db' = res.db
                 /\ segmentor_seg_dict' = Some(segmented.seg_dict)
                 /\ attempted' = Append(attempted,
                                    [path |-> batch_files[batch_pos].path,
                                     start_map |-> segmented.start_map,
                                     outcome |-> res.outcome])
                 /\ processed_files' = processed_files + res.processed
                 /\ total_segments' = total_segments + res.segments
                 /\ fill_call' = IF res.filled
                                 THEN [path |-> batch_files[batch_pos].path,
                                       outcome |-> res.fill_outcome]
                                 ELSE fill_call
                 /\ fills' = IF res.filled THEN fills + 1 ELSE fills
    /\ UNCHANGED db_calls
    /\ batch_pos' = batch_pos + 1
    /\ UNCHANGED <<batch_state, batch_files>>
    /\ UNCHANGED <<engine_vars, names_vars, timeline_vars, rename_vars>>

\* lines 166-172: the loop is over, the totals are shown
BatchFinish ==
    /\ batch_state = "running"
    /\ batch_pos > Len(batch_files)
    /\ batch_state' = "completed"
    /\ UNCHANGED <<batch_files, batch_pos, segmentor_seg_dict, attempted,
                   processed_files, total_segments>>
    /\ UNCHANGED <<engine_vars, names_vars, timeline_vars, store_vars, rename_vars>>

BatchNext == BatchStart \/ BatchIteration \/ BatchFinish

\* a pass of the for loop, as the loop counter sees it: of the steps of BatchNext
\* only BatchIteration moves batch_pos, and it can be taken whenever the loop has
\* an entry left
BatchPass ==
    /\ batch_state = "running"
    /\ batch_pos <= Len(batch_files)
    /\ batch_pos' = batch_pos + 1

\* the handler runs on the GUI thread until it returns: once called, the next
\* pass of its loop, and its last lines after the loop, are taken
BatchSpec ==
    BatchInit /\ [][BatchNext]_vars /\ WF_batch_pos(BatchPass) /\ WF_vars(BatchFinish)

\* every entry of the listing was attempted once, in order, on an empty map
AttemptedEachOnce ==
    /\ Len(attempted) = Len(batch_files)
    /\ \A k \in 1..Len(attempted) :
          /\ attempted[k].path = batch_files[k].path
          /\ attempted[k].start_map = <<>>

\* C29: a batch that has started goes through its whole listing whatever fails on
\* the way: it completes, and then every file of the listing was attempted exactly
\* once, each on a new segmentor with an empty map, and processed_files does not
\* exceed the number of files.
C29_BatchIsolatedAndTerminates ==
    /\ [](batch_state = "completed"
            => AttemptedEachOnce /\ processed_files <= Len(batch_files))
    /\ ((batch_state = "running") ~> (batch_state = "completed"))

\* a completed batch of two files: the first failed while it was segmented, after
\* it had stored windows in its map, the second was stored
C29_Witness ==
    /\ batch_state = "completed"
    /\ Len(batch_files) = 2
    /\ attempted[1].outcome = "process_failed"
    /\ attempted[2].outcome = "stored"
    /\ processed_files = 1
    /\ total_segments = 3
    /\ Len(db.segments) = 3

---------------------------------------------------------------------------
(* EDFProcessor.rename_edf_files of core/edf_processor.py *)

\* largest number of .edf files in the directory
MaxRenameFiles == 2

\* settings.MAX_WORKERS
MAX_WORKERS == 4

\* the capital that str.capitalize puts for a first character c (its titlecase):
\* the paired capital, "Ss" for U+00DF, and the two capitals above U+00FF
upper_char(c) ==
    IF IndexOf(c, LowerLetters) > 0
    THEN SubSeq(UpperLetters, IndexOf(c, LowerLetters), IndexOf(c, LowerLetters))
    ELSE IF c = "ß" THEN "Ss"
    ELSE IF c = "µ" THEN "M"
    ELSE IF c = "ÿ" THEN "Y"
    ELSE c

\* str.lower of one character

lower_char(c) ==
    IF IndexOf(c, UpperLetters) > 0
    THEN SubSeq(LowerLetters, IndexOf(c, UpperLetters), IndexOf(c, UpperLetters))
    ELSE c

RECURSIVE lower(_)
lower(s) ==
    IF s = "" THEN "" ELSE lower_char(SubSeq(s, 1, 1)) \o lower(SubSeq(s, 2, Len(s)))

\* str.capitalize
capitalize(s) ==
    IF s = "" THEN "" ELSE upper_char(SubSeq(s, 1, 1)) \o lower(SubSeq(s, 2, Len(s)))

\* str.isalpha
isalpha(s) ==
    /\ s # ""
    /\ \A i \in 1..Len(s) :
          Contains(SubSeq(s, i, i), LowerLetters \o UpperLetters \o OtherLetters)

\* s.strip('_')
RECURSIVE strip_underscores(_)
strip_underscores(s) ==
    IF Len(s) > 0 /\ SubSeq(s, 1, 1) = "_" THEN strip_underscores(SubSeq(s, 2, Len(s)))
    ELSE IF Len(s) > 0 /\ SubSeq(s, Len(s), Len(s)) = "_"
    THEN strip_underscores(SubSeq(s, 1, Len(s) - 1))
    ELSE s

\* s.split('_')
RECURSIVE split_underscores(_)
split_underscores(s) ==
    IF IndexOf("_", s) = 0 THEN <<s>>
    ELSE <<SubSeq(s, 1, IndexOf("_", s) - 1)>>
         \o split_underscores(SubSeq(s, IndexOf("_", s) + 1, Len(s)))

\* '_'.join(parts)
RECURSIVE join_underscores(_)
join_underscores(parts) ==
    IF Len(parts) = 0 THEN ""
    ELSE IF Len(parts) = 1 THEN parts[1]
    ELSE parts[1] \o "_" \o join_underscores(Tail(parts))

\* format_filename, lines 59-64
format_filename(filename) ==
    LET parts == split_underscores(strip_underscores(filename))
    IN  join_underscores([k \in 1..Len(parts) |->
            IF isalpha(parts[k]) THEN capitalize(parts[k]) ELSE parts[k]])

\* meas_date.strftime('%Y-%m-%d_%H-%M-%S')
strftime(date) ==
    ToString(date.year) \o "-" \o Pad2(date.month) \o "-" \o Pad2(date.day) \o "_"
        \o Pad2(date.hour) \o "-" \o Pad2(date.minute) \o "-" \o Pad2(date.second)

\* lines 80-91: the name without a counter and without ".edf"
new_name_stem(metadata_of_file) ==
    LET subject_info == metadata_of_file.subject_info
        patient_name == Strip(capitalize(Strip(subject_info.first_name)) \o "_"
                              \o capitalize(Strip(subject_info.middle_name)) \o "_"
                              \o capitalize(Strip(subject_info.last_name)))
        recording_date == IF metadata_of_file.meas_date = None THEN "None"
                          ELSE strftime(Value(metadata_of_file.meas_date))
    IN  format_filename(IF patient_name = "" THEN "Unknown" ELSE patient_name)
            \o "_" \o recording_date

\* a test that finds every path free
os_path_exists_never(names, name) == FALSE

\* os.path.exists(new_file_path) for the names present in the directory
os_path_exists(names, name) == name \in names

\* lines 93-98: the first of stem.edf, stem_1.edf, stem_2.edf, ... that does not exist
RECURSIVE new_name_from(_, _, _)
new_name_from(names, stem, counter) ==
    LET new_name == IF counter = 0 THEN stem \o ".edf"
                    ELSE stem \o "_" \o ToString(counter) \o ".edf"
    IN  IF os_path_exists(names, new_name)
        THEN new_name_from(names, stem, counter + 1)
        ELSE new_name

\* the names present in a directory
NamesIn(dir) == {entry[1] : entry \in dir}

\* os.rename(src, dst) on a POSIX system: [directory, raised]; a missing src raises,
\* an existing dst is replaced
os_rename(dir, src, dst) ==
    IF src \notin NamesIn(dir) THEN [directory |-> dir, raised |-> TRUE]
    ELSE LET file == CHOOSE entry \in dir : entry[1] = src
         IN  [directory |-> {entry \in dir : entry[1] \notin {src, dst}}
                                \cup {<<dst, file[2]>>},
              raised |-> FALSE]

\* the recordings: what read_raw_edf gives for each, None for a file it cannot
\* read; 2 is a copy of 1, 3 has no measurement date, 4 is unreadable
RecordingIds == 1..4

TheDate == [year |-> 2020, month |-> 1, day |-> 2, hour |-> 3, minute |-> 4, second |-> 5]

MetadataOf(id) ==
    IF id \in {1, 2}
    THEN Some([subject_info |-> [first_name |-> "ann", middle_name |-> "",
                                 last_name |-> "LEE"],
               meas_date |-> Some(TheDate)])
    ELSE IF id = 3
    THEN Some([subject_info |-> [first_name |-> "", middle_name |-> "",
                                 last_name |-> "lee2"],
               meas_date |-> None])
    ELSE IF id \in {5, 6, 7}
    THEN Some([subject_info |-> [first_name |-> "", middle_name |-> "",
                                 last_name |-> ""],
               meas_date |-> IF id = 7 THEN None ELSE Some(TheDate)])
    ELSE None

\* the file after _remove_patient_info rewrote the patient field of its header:
\* 5, 6, 7 are the recordings 1, 2, 3 without the names; the unreadable file 4
\* has no header of five parts, and 0 is the table name_mapping.csv
Anonymized(id) == IF id \in {1, 2, 3} THEN id + 4 ELSE id

\* the bytes of a file, named by the first file that holds them: a copy has the
\* bytes of its original
BytesOf(id) == IF id \in {2, 6} THEN id - 1 ELSE id

\* name ends with ".edf"
IsEdfName(name) == Len(name) >= 4 /\ SubSeq(name, Len(name) - 3, Len(name)) = ".edf"

\* the file names found in the directory: two plain ones, and the names the
\* renaming gives to recordings 1 and 2
FileNames == {"a.edf", "b.edf", "Ann__Lee_2020-01-02_03-04-05.edf",
              "Ann__Lee_2020-01-02_03-04-05_1.edf"}

\* a directory: file names, each holding another recording
Directories ==
    {dir \in SUBSET (FileNames \X RecordingIds) :
        /\ Cardinality(dir) <= MaxRenameFiles
        /\ \A e1, e2 \in dir : e1 # e2 => e1[1] # e2[1] /\ e1[2] # e2[2]}

\* get_edf_metadata(path): what is read from the file now at that path
get_edf_metadata(dir, name) ==
    IF name \notin NamesIn(dir) THEN None
    ELSE MetadataOf((CHOOSE entry \in dir : entry[1] = name)[2])

RenameInit ==
    /\ EngineIdle
    /\ NamesIdle
    /\ TimelineIdle
    /\ StoreIdle
    /\ BatchIdle
    /\ rename_state = "idle"
    /\ directory \in Directories
    /\ futures = <<>>
    /\ renamed_count = 0
    /\ dir_ops = 0

\* lines 68-73: the listing of the names that end with ".edf", and one future
\* submitted per listed file
RenameStart ==
    /\ rename_state = "idle"
    /\ rename_state' = "running"
    /\ futures' = [name \in {n \in NamesIn(directory) : IsEdfName(n)}
                      |-> [status |-> "queued", metadata |-> None]]
    /\ UNCHANGED <<directory, renamed_count, dir_ops>>
    /\ UNCHANGED <<engine_vars, names_vars, timeline_vars, store_vars, batch_vars>>

\* a worker of the pool takes a queued call
WorkerStarts ==
    \E name \in DOMAIN futures :
        /\ rename_state = "running"
        /\ futures[name].status = "queued"
        /\ Cardinality({n \in DOMAIN futures : futures[n].status = "running"}) < MAX_WORKERS
        /\ futures' = [futures EXCEPT ![name].status = "running"]
        /\ UNCHANGED <<rename_state, directory, renamed_count, dir_ops>>
        /\ UNCHANGED <<engine_vars, names_vars, timeline_vars, store_vars, batch_vars>>

\* the worker's get_edf_metadata returns: the future is done
WorkerFinishes ==
    \E name \in DOMAIN futures :
        /\ rename_state = "running"
        /\ futures[name].status = "running"
        /\ futures' = [futures EXCEPT ![name] =
                          [status |-> "done", metadata |-> get_edf_metadata(directory, name)]]
        /\ UNCHANGED <<rename_state, directory, renamed_count, dir_ops>>
        /\ UNCHANGED <<engine_vars, names_vars, timeline_vars, store_vars, batch_vars>>

\* lines 74-104: the collecting thread takes a future that is done and renames
\* its file, unless there is no metadata or os.rename raises
Collect ==
    \E name \in DOMAIN futures :
        /\ rename_state = "running"
        /\ futures[name].status = "done"
        /\ futures' = [futures EXCEPT ![name].status = "collected"]
        /\ IF futures[name].metadata = None
           THEN UNCHANGED <<directory, renamed_count>>
           ELSE \E renamed \in {os_rename(directory, name,
                                    new_name_from(NamesIn(directory),
                                        new_name_stem(Value(futures[name].metadata)), 0))} :
                   /\ directory' = renamed.directory
                   /\ renamed_count' = IF renamed.raised THEN renamed_count
                                       ELSE renamed_count + 1
        /\ UNCHANGED <<rename_state, dir_ops>>
        /\ UNCHANGED <<engine_vars, names_vars, timeline_vars, store_vars, batch_vars>>

\* line 106: every future was collected and the pool is shut down
RenameReturn ==
    /\ rename_state = "running"
    /\ \A name \in DOMAIN futures : futures[name].status = "collected"
    /\ rename_state' = "returned"
    /\ UNCHANGED <<directory, futures, renamed_count, dir_ops>>
    /\ UNCHANGED <<engine_vars, names_vars, timeline_vars, store_vars, batch_vars>>

\* _execute_operation runs one operation at a time on the thread of the
\* window: another operation starts only while rename_edf_files is not running
OperationMayStart == rename_state # "running" /\ dir_ops < MaxDirOps

\* find_and_delete_corrupted_edf: every .edf file read_raw_edf cannot read is
\* removed by the collecting thread
FindAndDeleteCorruptedEdf ==
    /\ OperationMayStart
    /\ directory' = {entry \in directory :
                        ~(IsEdfName(entry[1]) /\ MetadataOf(entry[2]) = None)}
    /\ dir_ops' = dir_ops + 1
    /\ UNCHANGED <<rename_state, futures, renamed_count>>
    /\ UNCHANGED <<engine_vars, names_vars, timeline_vars, store_vars, batch_vars>>

\* _find_and_delete_duplicates: of the files with the same bytes the first one
\* in the order of os.walk is kept, whichever that is
FindAndDeleteDuplicates ==
    /\ OperationMayStart
    /\ \E kept \in SUBSET directory :
           /\ \A entry \in directory :
                 Cardinality({k \in kept : BytesOf(k[2]) = BytesOf(entry[2])}) = 1
           /\ directory' = kept
    /\ dir_ops' = dir_ops + 1
    /\ UNCHANGED <<rename_state, futures, renamed_count>>
    /\ UNCHANGED <<engine_vars, names_vars, timeline_vars, store_vars, batch_vars>>

\* ''.join(random.choices('0123456789', k=6)) can give this text: six digits
IsCode(code) == Len(code) = 6 /\ \A i \in 1..6 : SubSeq(code, i, i) \in Digits

\* _generate_unique_code can return these codes, one after the other, in one call
\* of randomize_filenames: each is a code that is not in used_codes, the codes
\* returned before it (a draw that is in used_codes is drawn again)
IsUniqueCodes(codes) ==
    /\ \A k \in 1..Len(codes) : IsCode(codes[k])
    /\ \A i, j \in 1..Len(codes) : codes[i] = codes[j] => i = j

\* the draws considered, of the 10^6 there are
CodeSamples == {"874254", "316053", "050400", "734595"}

\* the lists of n different codes of a pool
RECURSIVE CodeLists(_, _)
CodeLists(n, pool) ==
    IF n = 0 THEN {<<>>}
    ELSE UNION {{<<code>> \o rest : rest \in CodeLists(n - 1, pool \ {code})} :
                   code \in pool}

\* the orders in which os.listdir can give a set of names
RECURSIVE Listings(_)
Listings(names) ==
    IF names = {} THEN {<<>>}
    ELSE UNION {{<<name>> \o rest : rest \in Listings(names \ {name})} :
                   name \in names}

\* os.path.splitext(old_name)[1]
ExtensionOf(name) == SubSeq(name, Len(BaseNameWithoutExt(name)) + 1, Len(name))

\* lines 386-389: the for loop over files, k counted from 1, where codes[k] is
\* the code _generate_unique_code returns for files[k]; os.rename raises for a
\* file that an earlier rename has replaced, and the exception ends the call
RECURSIVE randomize_loop(_, _, _, _)
randomize_loop(dir, files, codes, k) ==
    IF k > Len(files) THEN [directory |-> dir, raised |-> FALSE]
    ELSE LET renamed == os_rename(dir, files[k],
                                  codes[k] \o ExtensionOf(files[k]))
         IN  IF renamed.raised THEN renamed
             ELSE randomize_loop(renamed.directory, files, codes, k + 1)

\* randomize_filenames with the listing of os.listdir in the order files and
\* the codes drawn for them: the loop, then the table name_mapping.csv is written
randomize_filenames(dir, files, codes) ==
    LET renamed == randomize_loop(dir, files, codes, 1)
    IN  IF renamed.raised THEN renamed.directory
        ELSE {entry \in renamed.directory : entry[1] # "name_mapping.csv"}
                 \cup {<<"name_mapping.csv", 0>>}

\* randomize_filenames: os.listdir gives the files in any order, and the codes
\* are whatever random.choices draws
RandomizeFilenames ==
    /\ OperationMayStart
    /\ \E files \in Listings(NamesIn(directory)),
          codes \in CodeLists(Cardinality(directory), CodeSamples) :
           /\ IsUniqueCodes(codes)
           /\ directory' = randomize_filenames(directory, files, codes)
    /\ dir_ops' = dir_ops + 1
    /\ UNCHANGED <<rename_state, futures, renamed_count>>
    /\ UNCHANGED <<engine_vars, names_vars, timeline_vars, store_vars, batch_vars>>

\* remove_patient_info: the header of every .edf file is rewritten in place
RemovePatientInfo ==
    /\ OperationMayStart
    /\ directory' = {<<entry[1], IF IsEdfName(entry[1]) THEN Anonymized(entry[2])
                                  ELSE entry[2]>> : entry \in directory}
    /\ dir_ops' = dir_ops + 1
    /\ UNCHANGED <<rename_state, futures, renamed_count>>
    /\ UNCHANGED <<engine_vars, names_vars, timeline_vars, store_vars, batch_vars>>

RenameNext ==
    \/ RenameStart
    \/ WorkerStarts
    \/ WorkerFinishes
    \/ Collect
    \/ RenameReturn
    \/ FindAndDeleteCorruptedEdf
    \/ FindAndDeleteDuplicates
    \/ RandomizeFilenames
    \/ RemovePatientInfo

RenameSpec == RenameInit /\ [][RenameNext]_vars

\* the recordings present in a directory
RecordingsIn(dir) == {entry[2] : entry \in dir}

\* the step belongs to a rename_edf_files call
RenameStep == rename_state = "running" \/ rename_state' = "running"

\* C30: whatever the order in which the workers finish, a step of rename_edf_files
\* puts a file only under a name that did not exist just before, keeps every
\* recording of the directory, and keeps the number of .edf files.
C30_RenameLosesNoFile ==
    [][RenameStep
        => /\ \A entry \in directory' \ directory : entry[1] \notin NamesIn(directory)
           /\ RecordingsIn(directory') = RecordingsIn(directory)
           /\ Cardinality({entry \in directory' : IsEdfName(entry[1])})
                  = Cardinality({entry \in directory : IsEdfName(entry[1])})]_vars

\* a file was renamed with a counter, to a name free at that moment, while another
\* worker was still reading: recording 1 sat under the name recording 2 was to get
C30_Witness ==
    /\ rename_state = "running"
    /\ renamed_count = 1
    /\ <<"Ann__Lee_2020-01-02_03-04-05.edf", 1>> \in directory
    /\ <<"Ann__Lee_2020-01-02_03-04-05_1.edf", 2>> \in directory
    /\ \E name \in DOMAIN futures : futures[name].status = "running"
====
